---------------------------- MODULE Spec2Model ----------------------------
(***************************************************************************)
(* Verification model of the analytical transforms of the IND320 dashboard *)
(* (sliding-window correlation page, snow-drift page, SPC outlier          *)
(* detector, hourly-grid preparation of energy series, spectrogram, STL    *)
(* decomposition, LOF anomaly detector, SARIMAX slicing and forecast) and  *)
(* of two collaborators: the sidebar navigation and the Elhub client.      *)
(*                                                                         *)
(* Floating point values are modelled by exact arithmetic on small         *)
(* integers and rationals.  A cell that may be missing is a tuple: NaN is  *)
(* the empty tuple and the number v is <<v>>.  Python's 0-based indices    *)
(* are kept: entry i of a Python list is element i+1 of the sequence.      *)
(***************************************************************************)
EXTENDS Integers, Sequences, FiniteSets, TLC

VARIABLES
    matrix,      \* compute_corr_array: argument `matrix`, rows <<m, e>>
    window,      \* compute_corr_array: argument `window`
    corr,        \* compute_corr_array: returned array, None before the call
    corr_pc,     \* "ready" before compute_corr_array is applied, "done" after
    meteo_bins,  \* correlation page: hourly means of the chosen meteo variable
    energy_bins, \* correlation page: hourly means of the chosen energy group
    lag,         \* correlation page: value of the "Lag (hours)" slider
    df_aligned,  \* correlation page: frame `df` after line 161, <<>> before
    df,          \* correlation page: frame `df` after line 171, <<>> before
    page_pc,     \* correlation page: section of the script reached
    page_error,  \* correlation page: message of st.error, "" when none
    snow_in,     \* snow-drift functions: the function applied and its arguments
    snow_out,    \* snow-drift functions: the value returned, None before
    snow_pc,     \* snow-drift functions: "ready" before the call, "done" after
    drift_df,    \* snow-drift page: the weather frame `df`
    drift_records, \* snow-drift page: the list `records`, <<>> before line 121
    avg_sectors, \* snow-drift page: the array `avg_sectors`, <<>> before line 144
    drift_pc,    \* snow-drift page: section of the script reached
    fn_in,       \* analysis functions: the function applied and its arguments
    fn_out,      \* analysis functions: what the call produced, None before
    fn_pc,       \* analysis functions: "ready" before the call, "done" after
    session_state, \* navigation: st.session_state, the keys set so far
    menus,       \* navigation: what the four option menus hold at the last render
    menus_before, \* navigation: what they held at the render before it, None if none
    switched,    \* navigation: targets of st.switch_page in the last render
    renders,     \* navigation: renders of this session so far
    max_retries, \* Elhub fetch: the argument max_retries
    area,        \* Elhub fetch: position in PRICE_AREAS of the area being fetched
    attempt,     \* Elhub fetch: the loop variable `attempt`
    all_records, \* Elhub fetch: the list `all_records`
    requests_sent, \* Elhub fetch: requests.get calls made, per area
    answered_200, \* Elhub fetch: the areas that have answered with status 200
    last_answer, \* Elhub fetch: the last answer of the area being fetched, "" if none
    retried_after, \* Elhub fetch: the 200, 204 and other final answers that
                 \* were followed by one more request to the same area
    api_pc       \* Elhub fetch: "loop" while fetching, "returned" after line 82

corr_vars == <<matrix, window, corr, corr_pc>>
page_vars == <<meteo_bins, energy_bins, lag, df_aligned, df, page_pc, page_error>>
snow_vars == <<snow_in, snow_out, snow_pc>>
drift_vars == <<drift_df, drift_records, avg_sectors, drift_pc>>
fn_vars == <<fn_in, fn_out, fn_pc>>
nav_vars == <<session_state, menus, menus_before, switched, renders>>
api_vars ==
    <<max_retries, area, attempt, all_records, requests_sent, answered_200,
      last_answer, retried_after, api_pc>>
vars ==
    <<corr_vars, page_vars, snow_vars, drift_vars, fn_vars, nav_vars, api_vars>>

(***************************************************************************)
(* Bounds of the model.                                                    *)
(***************************************************************************)
MaxLen == 5          \* longest matrix handed to compute_corr_array
MaxWindow == 4       \* largest window handed to compute_corr_array
MaxBins == 5         \* correlation page: most hourly bins of the energy series
MaxLag == 2          \* correlation page: the lag slider, -240..240, scaled down
MaxObs == 2          \* snow drift: most wind observations in one call
MaxRows == 3         \* snow drift: most rows of the frame given to compute_SWE

(***************************************************************************)
(* Generic helpers.                                                        *)
(***************************************************************************)
NaN == <<>>
None == <<"None">>
Num(v) == <<v>>
IsNaN(c) == c = NaN
Val(c) == c[1]

\* Python slice s[a:b] for 0 <= a, b (clamped to the sequence as Python does).
Slice(s, a, b) ==
    LET hi == IF b > Len(s) THEN Len(s) ELSE b
    IN  IF a >= hi THEN <<>> ELSE SubSeq(s, a + 1, hi)

\* Entry i (0-based) of a Python list / numpy array.
At(s, i) == s[i + 1]

RECURSIVE SumSeq(_)
SumSeq(s) == IF s = <<>> THEN 0 ELSE Head(s) + SumSeq(Tail(s))

\* A component that takes no part in the specification at hand.
CorrOff == matrix = <<>> /\ window = 0 /\ corr = None /\ corr_pc = "off"
PageOff ==
    /\ meteo_bins = None /\ energy_bins = None /\ lag = 0
    /\ df_aligned = <<>> /\ df = <<>>
    /\ page_pc = "off" /\ page_error = ""
SnowOff == snow_in = [fn |-> "none"] /\ snow_out = None /\ snow_pc = "off"
DriftOff ==
    /\ drift_df = <<>> /\ drift_records = <<>> /\ avg_sectors = <<>>
    /\ drift_pc = "off"
FnOff == fn_in = [fn |-> "none"] /\ fn_out = None /\ fn_pc = "off"
NavOff ==
    /\ session_state = <<>> /\ menus = None /\ menus_before = None
    /\ switched = <<>> /\ renders = -1
ApiOff ==
    /\ max_retries = 0 /\ area = 0 /\ attempt = 0 /\ all_records = <<>>
    /\ requests_sent = <<>> /\ answered_200 = {} /\ last_answer = ""
    /\ retried_after = {}
    /\ api_pc = "off"

Abs(x) == IF x < 0 THEN -x ELSE x

(***************************************************************************)
(* Sliding_Window_Correlation.py : compute_corr_array                      *)
(***************************************************************************)
\* Rows of the model: every pair of values, a row whose meteo value is
\* missing and a row whose energy value is missing.
Vals == {0, 2}
Cells == {Num(v) : v \in Vals}
Rows == (Cells \X Cells) \cup {<<NaN, Num(0)>>, <<Num(2), NaN>>}

\* pd.DataFrame(sub, columns=["m","e"]).dropna(): rows with no NaN cell.
dropna(sub) == SelectSeq(sub, LAMBDA r : ~IsNaN(r[1]) /\ ~IsNaN(r[2]))

\* Column "m" (k = 1) or "e" (k = 2) of a NaN-free frame, as integers.
Column(dfw, k) == [j \in 1..Len(dfw) |-> Val(dfw[j][k])]

\* n * (sum of cross products of deviations from the means) of xs and ys:
\* n * SUM (x - mean x)(y - mean y) = n * SUM xy - SUM x * SUM y.
SCP(xs, ys) ==
    Len(xs) * SumSeq([j \in 1..Len(xs) |-> xs[j] * ys[j]])
        - SumSeq(xs) * SumSeq(ys)

\* Series.std() > 0  (sample standard deviation, ddof = 1; NaN for one row).
StdNotChecked(xs) == TRUE

StdPositive(xs) == Len(xs) > 1 /\ SCP(xs, xs) > 0

\* Series.corr (Pearson).  The number r = num / sqrt(den2) is kept exactly
\* as the pair <<num, den2>>.
CovInsteadOfCorr(xs, ys) ==
    <<SCP(xs, ys), (Len(xs) * (Len(xs) - 1)) * (Len(xs) * (Len(xs) - 1))>>

Pearson(xs, ys) == <<SCP(xs, ys), SCP(xs, xs) * SCP(ys, ys)>>

\* The body of the loop for one i: lines 81-84.
TwoValidRowsEnough(sub) ==
    LET dfw == dropna(sub)
        m == Column(dfw, 1)
        e == Column(dfw, 2)
    IN  IF Len(dfw) >= 2 /\ StdPositive(m) /\ StdPositive(e)
        THEN Pearson(m, e)
        ELSE NaN

WindowCorr(sub) ==
    LET dfw == dropna(sub)
        m == Column(dfw, 1)
        e == Column(dfw, 2)
    IN  IF Len(dfw) >= 3 /\ StdPositive(m) /\ StdPositive(e)
        THEN Pearson(m, e)
        ELSE NaN

\* sub = matrix[i-window:i]
WindowIncludesRowI(mat, w, i) == Slice(mat, i - w + 1, i + 1)

SubWindow(mat, w, i) == Slice(mat, i - w, i)

\* compute_corr_array(matrix, window): corr = full(len, nan); for i in
\* range(window, len): corr[i] = correlation of the trailing window.
compute_corr_array(mat, w) ==
    [k \in 1..Len(mat) |->
        LET i == k - 1
        IN  IF i >= w THEN WindowCorr(SubWindow(mat, w, i)) ELSE NaN]

(***************************************************************************)
(* Specification CorrFnSpec: compute_corr_array applied to every matrix of  *)
(* at most MaxLen rows and every window 1..MaxWindow.                       *)
(***************************************************************************)
Matrices == UNION {[1..n -> Rows] : n \in 0..MaxLen}

CorrFnInit ==
    /\ matrix \in Matrices
    /\ window \in 1..MaxWindow
    /\ corr = None
    /\ corr_pc = "ready"
    /\ meteo_bins = None /\ energy_bins = None /\ lag = 0
    /\ df_aligned = <<>> /\ df = <<>>
    /\ page_pc = "off" /\ page_error = ""
    /\ snow_in = [fn |-> "none"] /\ snow_out = None /\ snow_pc = "off"
    /\ DriftOff /\ FnOff /\ NavOff /\ ApiOff

ComputeCorr ==
    /\ corr_pc = "ready"
    /\ corr' = compute_corr_array(matrix, window)
    /\ corr_pc' = "done"
    /\ UNCHANGED <<matrix, window, page_vars, snow_vars, drift_vars, fn_vars, nav_vars, api_vars>>

CorrFnNext == ComputeCorr

CorrFnSpec == CorrFnInit /\ [][CorrFnNext]_vars

(***************************************************************************)
(* Claims about compute_corr_array.                                        *)
(***************************************************************************)
\* Indices (0-based) of the rows of the trailing window of entry i.
WindowIdx(i) == {j \in 0..(Len(matrix) - 1) : i - window <= j /\ j < i}

\* Rows of the trailing window of entry i that hold no NaN.
ValidIdx(i) == {j \in WindowIdx(i) :
                   ~IsNaN(At(matrix, j)[1]) /\ ~IsNaN(At(matrix, j)[2])}

\* Column k of the valid rows of the window of entry i is constant.
ConstantColumn(i, k) ==
    \A a, b \in ValidIdx(i) : At(matrix, a)[k] = At(matrix, b)[k]

Entries == 0..(Len(matrix) - 1)

IsNumber(c) == Len(c) = 2 /\ c[2] > 0
IsOne(c) == IsNumber(c) /\ c[1] > 0 /\ c[1] * c[1] = c[2]

\* C1: the result has the length of matrix, entry i is NaN for i < window,
\* and for i >= window entry i is what the function returns for the matrix
\* made of rows i-window .. i-1 alone followed by an arbitrary row: it
\* depends on no row outside the trailing window, and not on row i.
C1_TrailingWindowOnly ==
    corr_pc = "done" =>
        /\ Len(corr) = Len(matrix)
        /\ \A i \in Entries : i < window => IsNaN(At(corr, i))
        /\ \A i \in Entries : i >= window =>
              \A pad \in Rows :
                 At(corr, i) =
                    At(compute_corr_array(
                          Append(Slice(matrix, i - window, i), pad), window),
                       window)

C1_Witness ==
    /\ corr_pc = "done"
    /\ window >= 3
    /\ \E i \in Entries : i > window /\ IsNumber(At(corr, i))
                          /\ At(corr, i) # At(corr, i - 1)

\* C2: for i >= window entry i is NaN exactly when fewer than 3 rows of the
\* trailing window are free of NaN or one of the two columns is constant
\* over those rows; otherwise it is a number.
C2_NaNExactlyWhenDegenerate ==
    corr_pc = "done" =>
        \A i \in Entries : i >= window =>
            LET degenerate == \/ Cardinality(ValidIdx(i)) < 3
                              \/ ConstantColumn(i, 1)
                              \/ ConstantColumn(i, 2)
            IN  /\ degenerate => IsNaN(At(corr, i))
                /\ ~degenerate => IsNumber(At(corr, i))

C2_Witness ==
    /\ corr_pc = "done"
    /\ \E i \in Entries :
          /\ i >= window
          /\ ValidIdx(i) # WindowIdx(i)
          /\ IsNumber(At(corr, i))

\* C5: every non-NaN entry r = num / sqrt(den2) satisfies -1 <= r <= 1.
C5_CorrelationBounds ==
    corr_pc = "done" =>
        \A i \in Entries :
            ~IsNaN(At(corr, i)) =>
                /\ IsNumber(At(corr, i))
                /\ At(corr, i)[1] * At(corr, i)[1] <= At(corr, i)[2]

C5_Witness ==
    /\ corr_pc = "done"
    /\ \E i \in Entries :
          /\ IsNumber(At(corr, i))
          /\ At(corr, i)[1] # 0
          /\ At(corr, i)[1] * At(corr, i)[1] < At(corr, i)[2]

\* Both columns hold the same series.
SelfSeries == \A j \in Entries : At(matrix, j)[1] = At(matrix, j)[2]

\* C6 as stated: with both columns equal, every entry i >= window whose
\* trailing window is not constant is 1 and every entry whose window is
\* constant is NaN.
C6_Original ==
    (corr_pc = "done" /\ SelfSeries) =>
        \A i \in Entries : i >= window =>
            /\ ~ConstantColumn(i, 1) => IsOne(At(corr, i))
            /\ ConstantColumn(i, 1) => IsNaN(At(corr, i))

\* C6 amended: with both columns equal, an entry i >= window is 1 when its
\* trailing window holds at least 3 rows free of NaN that are not all
\* equal, and NaN in every other case.
C6_SelfCorrelation ==
    (corr_pc = "done" /\ SelfSeries) =>
        \A i \in Entries : i >= window =>
            IF Cardinality(ValidIdx(i)) >= 3 /\ ~ConstantColumn(i, 1)
            THEN IsOne(At(corr, i))
            ELSE IsNaN(At(corr, i))

C6_Witness ==
    /\ corr_pc = "done"
    /\ SelfSeries
    /\ \E i, k \in Entries :
          /\ i >= window /\ k >= window
          /\ IsOne(At(corr, i))
          /\ ConstantColumn(k, 1) /\ Cardinality(ValidIdx(k)) >= 3
          /\ IsNaN(At(corr, k))

(***************************************************************************)
(* Sliding_Window_Correlation.py : the page script, lines 133-282.         *)
(*                                                                         *)
(* An hourly series is [start |-> h, vals |-> <<cell, ...>>]: the value of  *)
(* vals[k] carries the timestamp start + k - 1 (hours).  The inputs are     *)
(* the series as .resample("1H").mean() leaves them: one bin per hour from  *)
(* the first to the last raw timestamp, NaN for an hour without a value.    *)
(* A frame is a sequence of rows [t, meteo, energy].                        *)
(***************************************************************************)
Lags == (0 - MaxLag)..MaxLag

\* The window slider, 6..240 in the page, scaled down to the matrix sizes
\* of the model.
PageWindows == 3..MaxWindow

MeteoStarts == {-1, 1, 7}
MeteoCells == {NaN, Num(0), Num(2)}
MeteoInputs ==
    {[start |-> h, vals |-> v] :
        h \in MeteoStarts, v \in UNION {[1..n -> MeteoCells] : n \in 1..3}}

\* The energy series starts at hour 0; the reading of hour h is h itself,
\* so that every value tells the hour it was observed at.  No bin at all
\* stands for an empty selection (line 145).
EnergyInputs ==
    {[start |-> 0, vals |-> v] :
        v \in UNION {{f \in [1..n -> {NaN} \cup {Num(h) : h \in 0..(n - 1)}] :
                         \A k \in 1..n : f[k] \in {NaN, Num(k - 1)}}
                     : n \in 0..MaxBins}}

\* Series.ffill(): a NaN takes the last earlier value, a leading NaN stays.
RECURSIVE ffill(_)
ffill(vals) ==
    IF vals = <<>> THEN <<>>
    ELSE LET front == ffill(SubSeq(vals, 1, Len(vals) - 1))
             last == vals[Len(vals)]
         IN  Append(front,
                    IF IsNaN(last) /\ front # <<>>
                    THEN front[Len(front)] ELSE last)

Labels(sr) == {sr.start + k - 1 : k \in 1..Len(sr.vals)}
ValueAt(sr, t) == sr.vals[t - sr.start + 1]

\* Series.reindex(index, method="nearest", tolerance="1H") at one label t:
\* the value at the nearest label of sr at most one hour away, else NaN.
reindex_nearest(sr, t) ==
    LET near == {l \in Labels(sr) : Abs(l - t) <= 1}
    IN  IF near = {} THEN NaN
        ELSE ValueAt(sr, CHOOSE l \in near :
                            \A o \in near : Abs(l - t) <= Abs(o - t))

\* DataFrame.dropna() on a frame.
dropna_frame(fr) ==
    SelectSeq(fr, LAMBDA r : ~IsNaN(r.meteo) /\ ~IsNaN(r.energy))

\* Lines 134 and 151: .resample("1H").mean().ffill() of the two inputs.
df_m == [start |-> meteo_bins.start, vals |-> ffill(meteo_bins.vals)]
df_e == [start |-> energy_bins.start, vals |-> ffill(energy_bins.vals)]

\* Lines 158-161: meteo reindexed on the energy index, beside the energy.
AlignedFrame ==
    dropna_frame([k \in 1..Len(df_e.vals) |->
                    [t |-> df_e.start + k - 1,
                     meteo |-> reindex_nearest(df_m, df_e.start + k - 1),
                     energy |-> df_e.vals[k]]])

\* Line 169: df["energy"] = df["energy"].shift(lag): row k takes the energy
\* of row k - lag, NaN when there is no such row.
ShiftBackwards(fr, L) ==
    [k \in 1..Len(fr) |->
        [fr[k] EXCEPT !.energy = IF k + L >= 1 /\ k + L <= Len(fr)
                                 THEN fr[k + L].energy ELSE NaN]]

shift_energy(fr, L) ==
    [k \in 1..Len(fr) |->
        [fr[k] EXCEPT !.energy = IF k - L >= 1 /\ k - L <= Len(fr)
                                 THEN fr[k - L].energy ELSE NaN]]

\* Line 181: df[["meteo", "energy"]].to_numpy()
to_numpy(fr) == [k \in 1..Len(fr) |-> <<fr[k].meteo, fr[k].energy>>]

\* Line 183: if window >= len(matrix): error and stop.
WindowGuardOffByOne(w, mat) == w > Len(mat)

WindowTooLarge(w, mat) == w >= Len(mat)

AllNaN(c) == \A k \in 1..Len(c) : IsNaN(c[k])

\* The messages of the page's st.error calls.
ErrNoEnergy == "No energy data found for this energy group & year range."
ErrNoOverlap == "No overlapping METEO and ENERGY timestamps were found."
ErrLag == "Lag removed all overlapping data. Choose a smaller lag."
ErrWindow == "Rolling window is larger than available data."
ErrAllNaN == "Correlation could not be computed (all windows invalid)."

PageInit ==
    /\ page_pc = "start"
    /\ meteo_bins \in MeteoInputs
    /\ energy_bins \in EnergyInputs
    /\ lag = 0 /\ window = 0
    /\ df_aligned = <<>> /\ df = <<>>
    /\ matrix = <<>> /\ corr = None /\ corr_pc = "ready"
    /\ page_error = ""
    /\ snow_in = [fn |-> "none"] /\ snow_out = None /\ snow_pc = "off"
    /\ DriftOff /\ FnOff /\ NavOff /\ ApiOff

\* Lines 133-165: prepare both series, align them, stop on an empty frame.
Align ==
    /\ page_pc = "start"
    /\ IF energy_bins.vals = <<>>
       THEN /\ page_error' = ErrNoEnergy
            /\ page_pc' = "stopped"
            /\ UNCHANGED df_aligned
       ELSE /\ df_aligned' = AlignedFrame
            /\ IF AlignedFrame = <<>>
               THEN /\ page_error' = ErrNoOverlap
                    /\ page_pc' = "stopped"
               ELSE /\ page_pc' = "aligned"
                    /\ UNCHANGED page_error
    /\ UNCHANGED <<meteo_bins, energy_bins, lag, df, corr_vars, snow_vars, drift_vars, fn_vars, nav_vars, api_vars>>

\* Lines 167-175: shift the energy column by the slider's lag, drop the rows
\* left without a value, stop on an empty frame.  The slider is read here.
ApplyLag ==
    /\ page_pc = "aligned"
    /\ \E L \in Lags :
          LET shifted == IF L # 0 THEN shift_energy(df_aligned, L)
                         ELSE df_aligned
              dropped == dropna_frame(shifted)
          IN  /\ lag' = L
              /\ df' = dropped
              /\ IF dropped = <<>>
                 THEN /\ page_error' = ErrLag
                      /\ page_pc' = "stopped"
                 ELSE /\ page_pc' = "lagged"
                      /\ UNCHANGED page_error
    /\ UNCHANGED <<meteo_bins, energy_bins, df_aligned, corr_vars, snow_vars, drift_vars, fn_vars, nav_vars, api_vars>>

\* Lines 181-192: build the matrix, refuse a window that is not smaller than
\* it, compute the correlation, stop when every entry is NaN.  The window
\* slider is read here.
Correlate ==
    /\ page_pc = "lagged"
    /\ \E w \in PageWindows :
          /\ window' = w
          /\ matrix' = to_numpy(df)
          /\ IF WindowTooLarge(w, to_numpy(df))
             THEN /\ page_error' = ErrWindow
                  /\ page_pc' = "stopped"
                  /\ UNCHANGED <<corr, corr_pc>>
             ELSE /\ corr' = compute_corr_array(to_numpy(df), w)
                  /\ corr_pc' = "done"
                  /\ IF AllNaN(compute_corr_array(to_numpy(df), w))
                     THEN /\ page_error' = ErrAllNaN
                          /\ page_pc' = "stopped"
                     ELSE /\ page_pc' = "computed"
                          /\ UNCHANGED page_error
    /\ UNCHANGED <<meteo_bins, energy_bins, lag, df_aligned, df, snow_vars, drift_vars, fn_vars, nav_vars, api_vars>>

\* Lines 198-282: window selection, the three plots, the table of values.
Display ==
    /\ page_pc = "computed"
    /\ page_pc' = "shown"
    /\ UNCHANGED <<meteo_bins, energy_bins, lag, df_aligned, df, page_error,
                   corr_vars, snow_vars, drift_vars, fn_vars, nav_vars, api_vars>>

PageNext == Align \/ ApplyLag \/ Correlate \/ Display

PageSpec == PageInit /\ [][PageNext]_vars

(***************************************************************************)
(* Claims about the correlation page.                                      *)
(***************************************************************************)
Times(fr) == {fr[k].t : k \in 1..Len(fr)}
RowAt(fr, t) == fr[CHOOSE k \in 1..Len(fr) : fr[k].t = t]

\* C3: compute_corr_array is called only with a non-empty aligned frame, a
\* non-empty frame after the lag and window < number of rows; whenever one
\* of these fails the page ends with an error and without the call; and
\* what is displayed holds at least one entry that is not NaN.
C3_GuardsBeforeCorrelation ==
    page_pc # "off" =>
        /\ corr_pc = "done" =>
              /\ df_aligned # <<>>
              /\ df # <<>>
              /\ matrix = to_numpy(df)
              /\ window < Len(matrix)
        /\ page_pc \in {"computed", "shown"} =>
              /\ corr_pc = "done" /\ page_error = ""
              /\ Len(corr) = Len(df)
              /\ \E k \in 1..Len(corr) : ~IsNaN(corr[k])
        /\ page_pc = "stopped" =>
              /\ page_error # ""
              /\ corr_pc = "done" => AllNaN(corr)
        /\ (page_pc \notin {"start", "aligned", "lagged"} /\ corr_pc = "ready")
              => page_pc = "stopped"
        /\ (page_pc \in {"stopped", "computed", "shown"} /\ corr_pc = "ready")
              => \/ df_aligned = <<>>
                 \/ df = <<>>
                 \/ window >= Len(df)

C3_Witness ==
    /\ page_pc = "stopped"
    /\ corr_pc = "ready"
    /\ df # <<>>
    /\ window = Len(df)
    /\ page_error = ErrWindow

\* C4: after the lag step every row of the frame, at timestamp t, holds the
\* meteo value the aligned frame has at t and the energy value of the
\* prepared energy series at t - lag hours; the rows kept are those of the
\* aligned frame whose shifted energy exists, in time order; lag 0 changes
\* nothing.
C4_LagPairsByTimestamp ==
    (page_pc \in {"lagged", "computed", "shown"} \/ (page_pc = "stopped" /\ df_aligned # <<>>)) =>
        /\ \A k \in 1..Len(df) :
              /\ df[k].t \in Times(df_aligned)
              /\ df[k].meteo = RowAt(df_aligned, df[k].t).meteo
              /\ (df[k].t - lag) \in Labels(df_e)
              /\ df[k].energy = ValueAt(df_e, df[k].t - lag)
              /\ ~IsNaN(df[k].energy)
        /\ Times(df) = {t \in Times(df_aligned) : (t - lag) \in Times(df_aligned)}
        /\ \A j, k \in 1..Len(df) : j < k => df[j].t < df[k].t
        /\ lag = 0 => df = df_aligned

C4_Witness ==
    /\ page_pc = "lagged"
    /\ lag # 0
    /\ Len(df) >= 2
    /\ Len(df) < Len(df_aligned)
    /\ \E k \in 1..Len(energy_bins.vals) : k > 1 /\ IsNaN(energy_bins.vals[k])

(***************************************************************************)
(* Exact rational numbers <<n, d>>, d > 0, in lowest terms.  Products are  *)
(* cancelled crosswise before multiplying, which keeps the intermediate    *)
(* integers small.                                                         *)
(***************************************************************************)
RECURSIVE GCD(_, _)
GCD(a, b) == IF b = 0 THEN Abs(a) ELSE GCD(b, a % b)

Rat(n, d) ==
    LET g == GCD(Abs(n), d)
    IN  IF n = 0 THEN <<0, 1>> ELSE <<n \div g, d \div g>>

RMul(p, q) ==
    LET g1 == GCD(Abs(p[1]), q[2])
        g2 == GCD(Abs(q[1]), p[2])
    IN  IF p[1] = 0 \/ q[1] = 0 THEN <<0, 1>>
        ELSE <<(p[1] \div g1) * (q[1] \div g2), (p[2] \div g2) * (q[2] \div g1)>>

\* p > q and p >= q, compared over the least common denominator.
RGt(p, q) ==
    LET g == GCD(p[2], q[2])
    IN  p[1] * (q[2] \div g) > q[1] * (p[2] \div g)

RGe(p, q) ==
    LET g == GCD(p[2], q[2])
    IN  p[1] * (q[2] \div g) >= q[1] * (p[2] \div g)

(***************************************************************************)
(* 08_Snow_Drift.py : compute_SWE, compute_Qupot, compute_sector_index,    *)
(* compute_snow_transport and the season of a timestamp.                   *)
(***************************************************************************)
\* Temperatures and precipitation are held in tenths (of a degree, of a
\* millimetre): 1 degree C is 10.
FreezeAtOrBelowOne(row) ==
    IF ~IsNaN(row.temperature_2m) /\ Val(row.temperature_2m) <= 10
    THEN row.precipitation ELSE Num(0)

\* lambda row: row["precipitation"] if row["temperature_2m"] < 1 else 0
\* (a NaN temperature compares False).
swe_of_row(row) ==
    IF ~IsNaN(row.temperature_2m) /\ Val(row.temperature_2m) < 10
    THEN row.precipitation ELSE Num(0)

\* compute_SWE(df): df.apply(lambda row: ..., axis=1)
compute_SWE(frame) == [k \in 1..Len(frame) |-> swe_of_row(frame[k])]

\* u ** 3.8 = u^(19/5), exact on the fifth powers u = k^5: (k^5)^3.8 = k^19.
Pow38(u) == LET k == CHOOSE r \in 0..u : r ^ 5 = u IN k ^ 19

\* compute_Qupot(ws, dt=3600): np.sum((ws**3.8) * dt) / 233_847
compute_Qupot(ws) ==
    RMul(<<SumSeq([k \in 1..Len(ws) |-> Pow38(ws[k])]), 1>>, Rat(3600, 233847))

\* compute_sector_index(direction): int(((direction + 11.25) % 360) // 22.5).
\* Directions are held in quarter degrees: 360 is 1440, 11.25 is 45 and
\* 22.5 is 90.
SectorWithoutOffset(d4) == (d4 % 1440) \div 90

compute_sector_index(d4) == ((d4 + 45) % 1440) \div 90

\* 0.14 ** (F / T) for F an integral multiple of T: (7/50)^(F/T).
PowDecay(F, T) == <<7 ^ (F \div T), 50 ^ (F \div T)>>

\* The test of line 49, if Qupot > Qspot.
TransportLimitedOrEqual(Qupot, Qspot) == RGe(Qupot, Qspot)

TransportLimited(Qupot, Qspot) == RGt(Qupot, Qspot)

\* compute_snow_transport(T, F, theta, SWE, ws) -> (Qt, Qupot, Qspot, Srwe)
compute_snow_transport(T, F, theta, SWE, ws) ==
    LET Qupot == compute_Qupot(ws)
        Qspot == RMul(Rat(T, 2), SWE)
        Srwe == RMul(theta, SWE)
        Qinf == IF TransportLimited(Qupot, Qspot)
                THEN RMul(Rat(T, 2), Srwe)
                ELSE Qupot
        decay == PowDecay(F, T)
        Qt == RMul(Qinf, Rat(decay[2] - decay[1], decay[2]))
    IN  <<Qt, Qupot, Qspot, Srwe>>

\* Line 114: lambda t: t.year if t.month >= 7 else t.year - 1
SeasonFromAugust(t) == IF t.month > 7 THEN t.year ELSE t.year - 1

season_of(t) == IF t.month >= 7 THEN t.year ELSE t.year - 1

(***************************************************************************)
(* Specification SnowFnSpec: each function of the snow-drift page applied  *)
(* to every input of a bounded set.                                        *)
(***************************************************************************)
\* Fetch lengths T, fetch distances F = T, 2T, availability fractions,
\* snow totals (one of them the total at which Qupot = Qspot for a single
\* observation of wind speed 1 and T = 800) and wind speeds.
FetchLengths == {800, 3000}
FetchRatios == {1, 2}
Thetas == {<<1, 2>>, <<1, 1>>}
SnowTotals == {<<0, 1>>, <<1, 25983>>, <<1, 1>>, <<6, 1>>}
WindSpeeds == {0, 1, 32}
WindSeries == UNION {[1..n -> WindSpeeds] : n \in 0..MaxObs}

TransportInputs ==
    {[fn |-> "compute_snow_transport", T |-> T, F |-> T * r, theta |-> th,
      SWE |-> swe, ws |-> ws] :
        T \in FetchLengths, r \in FetchRatios, th \in Thetas,
        swe \in SnowTotals, ws \in WindSeries}

\* Wind directions 0 .. 360 degrees in steps of a quarter degree.
Directions == 0..1440
SectorInputs == {[fn |-> "compute_sector_index", direction |-> d] : d \in Directions}

\* Hourly timestamps of three years, 2020 a leap year.
Years == 2019..2021
DaysIn(y, m) ==
    IF m \in {4, 6, 9, 11} THEN 30
    ELSE IF m = 2 THEN (IF y % 4 = 0 THEN 29 ELSE 28)
    ELSE 31
Timestamps ==
    {[year |-> y, month |-> m, day |-> d, hour |-> h] :
        y \in Years, m \in 1..12, d \in 1..31, h \in {0, 23}}
SeasonInputs ==
    {[fn |-> "season", time |-> t] :
        t \in {u \in Timestamps : u.day <= DaysIn(u.year, u.month)}}

\* Rows of the weather frame: temperature and precipitation in tenths.
Temperatures == {NaN, Num(-50), Num(9), Num(10), Num(11)}
Precipitations == {NaN, Num(0), Num(3)}
WeatherRows ==
    {[temperature_2m |-> t, precipitation |-> p] :
        t \in Temperatures, p \in Precipitations}
SWEInputs ==
    {[fn |-> "compute_SWE", df |-> f] :
        f \in UNION {[1..n -> WeatherRows] : n \in 0..MaxRows}}

SnowFnInit ==
    /\ snow_in \in TransportInputs \cup SectorInputs \cup SeasonInputs \cup SWEInputs
    /\ snow_out = None
    /\ snow_pc = "ready"
    /\ matrix = <<>> /\ window = 0 /\ corr = None /\ corr_pc = "off"
    /\ meteo_bins = None /\ energy_bins = None /\ lag = 0
    /\ df_aligned = <<>> /\ df = <<>>
    /\ page_pc = "off" /\ page_error = ""
    /\ DriftOff /\ FnOff /\ NavOff /\ ApiOff

Call_compute_snow_transport ==
    /\ snow_pc = "ready" /\ snow_in.fn = "compute_snow_transport"
    /\ snow_out' = compute_snow_transport(snow_in.T, snow_in.F, snow_in.theta,
                                          snow_in.SWE, snow_in.ws)
    /\ snow_pc' = "done"
    /\ UNCHANGED <<snow_in, corr_vars, page_vars, drift_vars, fn_vars, nav_vars, api_vars>>

Call_compute_sector_index ==
    /\ snow_pc = "ready" /\ snow_in.fn = "compute_sector_index"
    /\ snow_out' = compute_sector_index(snow_in.direction)
    /\ snow_pc' = "done"
    /\ UNCHANGED <<snow_in, corr_vars, page_vars, drift_vars, fn_vars, nav_vars, api_vars>>

Call_season ==
    /\ snow_pc = "ready" /\ snow_in.fn = "season"
    /\ snow_out' = season_of(snow_in.time)
    /\ snow_pc' = "done"
    /\ UNCHANGED <<snow_in, corr_vars, page_vars, drift_vars, fn_vars, nav_vars, api_vars>>

Call_compute_SWE ==
    /\ snow_pc = "ready" /\ snow_in.fn = "compute_SWE"
    /\ snow_out' = compute_SWE(snow_in.df)
    /\ snow_pc' = "done"
    /\ UNCHANGED <<snow_in, corr_vars, page_vars, drift_vars, fn_vars, nav_vars, api_vars>>

SnowFnNext ==
    \/ Call_compute_snow_transport
    \/ Call_compute_sector_index
    \/ Call_season
    \/ Call_compute_SWE

SnowFnSpec == SnowFnInit /\ [][SnowFnNext]_vars

(***************************************************************************)
(* Claims about the snow-drift functions.                                  *)
(***************************************************************************)
Returned(f) == snow_pc = "done" /\ snow_in.fn = f

\* C7: Qspot = 0.5*T*SWE, Srwe = theta*SWE, Qupot = sum(ws^3.8)*3600/233847,
\* Qinf = 0.5*T*Srwe exactly when Qupot > Qspot and Qupot otherwise, and
\* Qt = Qinf * (1 - 0.14^(F/T)).
C7_SnowTransportFormula ==
    Returned("compute_snow_transport") =>
        LET T == snow_in.T
            n == snow_in.F \div snow_in.T
            Qt == snow_out[1]
            Qupot == snow_out[2]
            Qspot == snow_out[3]
            Srwe == snow_out[4]
            S == SumSeq([k \in 1..Len(snow_in.ws) |-> Pow38(snow_in.ws[k])])
            strictly == RGt(Qupot, Qspot)
            Qinf == IF strictly THEN RMul(Rat(T, 2), Srwe) ELSE Qupot
        IN  /\ RMul(<<2, 1>>, Qspot) = RMul(<<T, 1>>, snow_in.SWE)
            /\ Srwe = RMul(snow_in.theta, snow_in.SWE)
            /\ RMul(Qupot, Rat(233847, 3600)) = <<S, 1>>
            /\ RMul(Qt, Rat(50 ^ n, 50 ^ n - 7 ^ n)) = Qinf

C7_Witness ==
    /\ Returned("compute_snow_transport")
    /\ snow_out[2] = snow_out[3]
    /\ snow_out[2][1] > 0
    /\ snow_in.theta # <<1, 1>>
    /\ snow_out[1] = RMul(snow_out[2], Rat(43, 50))

\* C8: for 0 <= d <= 360 the sector index is floor(((d + 11.25) mod 360) /
\* 22.5), lies in 0..15, and d is within 11.25 degrees of the centre k*22.5
\* of its sector k (the lower edge included, the upper excluded); 0, 360 and
\* [348.75, 360] fall in sector 0 and 11.25 in sector 1.
C8_SectorIndex ==
    Returned("compute_sector_index") =>
        LET d == snow_in.direction
            k == snow_out
            off == (d - 90 * k + 1440) % 1440
        IN  /\ k \in 0..15
            /\ k = ((d + 45) % 1440) \div 90
            /\ off < 45 \/ off >= 1395
            /\ d >= 1395 => k = 0
            /\ d = 0 => k = 0
            /\ d = 45 => k = 1

C8_Witness ==
    /\ Returned("compute_sector_index")
    /\ snow_in.direction = 1440
    /\ snow_out = 0

DateKey(y, m, d) == y * 10000 + m * 100 + d

\* C9: the season of a timestamp is its year from July on and the year
\* before from January to June: season Y holds exactly the timestamps from
\* 1 July Y to 30 June Y+1; 2020-06-30 is in 2019 and 2020-07-01 in 2020.
C9_SeasonJulyToJune ==
    Returned("season") =>
        LET t == snow_in.time
            key == DateKey(t.year, t.month, t.day)
        IN  /\ \A Y \in 2017..2023 :
                  (snow_out = Y) <=>
                      (DateKey(Y, 7, 1) <= key /\ key <= DateKey(Y + 1, 6, 30))
            /\ key = DateKey(2020, 6, 30) => snow_out = 2019
            /\ key = DateKey(2020, 7, 1) => snow_out = 2020

C9_Witness ==
    /\ Returned("season")
    /\ snow_in.time = [year |-> 2020, month |-> 7, day |-> 1, hour |-> 0]
    /\ snow_out = 2020

\* C10: compute_SWE returns one value per row: the row's precipitation when
\* its temperature is strictly below 1 degree C, and 0 otherwise.
C10_SWEBelowOneDegree ==
    Returned("compute_SWE") =>
        /\ Len(snow_out) = Len(snow_in.df)
        /\ \A k \in 1..Len(snow_in.df) :
              LET row == snow_in.df[k]
                  below == row.temperature_2m \in {Num(v) : v \in -1000..9}
              IN  /\ below => snow_out[k] = row.precipitation
                  /\ ~below => snow_out[k] = Num(0)

C10_Witness ==
    /\ Returned("compute_SWE")
    /\ \E k \in 1..Len(snow_in.df) :
          /\ snow_in.df[k].temperature_2m = Num(10)
          /\ snow_in.df[k].precipitation = Num(3)
          /\ snow_out[k] = Num(0)
    /\ \E k \in 1..Len(snow_in.df) :
          /\ snow_in.df[k].temperature_2m = Num(9)
          /\ snow_out[k] = Num(3)

(***************************************************************************)
(* 08_Snow_Drift.py, lines 113-150: the script of the snow-drift page from *)
(* the fetched frame to the yearly records and the wind rose.              *)
(***************************************************************************)
MaxDriftRows == 2    \* snow-drift page: most rows of the weather frame
NumSectors == 16     \* compute_sector_transport: sectors = [0.0] * 16

\* Lines 117-119: T = 3000, F = 30000, theta = 0.5.  The page's F = 10 T is
\* held as F = 2 T, the largest ratio for which 0.14 ** (F / T) is exact in
\* 32-bit integers.
page_T == 3000
page_F == 2 * page_T
page_theta == <<1, 2>>

RAdd(p, q) ==
    LET g == GCD(p[2], q[2])
    IN  Rat(p[1] * (q[2] \div g) + q[1] * (p[2] \div g), (p[2] \div g) * q[2])

\* Ascending sequence of a finite set of integers: the order in which
\* groupby hands out its keys.
SortSet(S) ==
    CHOOSE s \in [1..Cardinality(S) -> S] :
        \A i, j \in 1..Cardinality(S) : i < j => s[i] < s[j]

\* Series.sum(): missing cells are skipped.
sum_skipna(cells) ==
    SumSeq([k \in 1..Len(cells) |-> IF IsNaN(cells[k]) THEN 0 ELSE Val(cells[k])])

RECURSIVE OverwritingSectors(_, _, _)
OverwritingSectors(ws, wd, n) ==
    IF n = 0 THEN [k \in 1..NumSectors |-> <<0, 1>>]
    ELSE [OverwritingSectors(ws, wd, n - 1)
             EXCEPT ![compute_sector_index(wd[n]) + 1] =
                 RMul(<<Pow38(ws[n]), 1>>, Rat(3600, 233847))]

\* compute_sector_transport(ws, wd, dt=3600), after n pairs of zip(ws, wd).
RECURSIVE sector_transport_upto(_, _, _)
sector_transport_upto(ws, wd, n) ==
    IF n = 0 THEN [k \in 1..NumSectors |-> <<0, 1>>]
    ELSE LET sectors == sector_transport_upto(ws, wd, n - 1)
             idx == compute_sector_index(wd[n])
         IN  [sectors EXCEPT ![idx + 1] =
                 RAdd(@, RMul(<<Pow38(ws[n]), 1>>, Rat(3600, 233847)))]

MinLen(a, b) == IF Len(a) < Len(b) THEN Len(a) ELSE Len(b)

compute_sector_transport(ws, wd) == sector_transport_upto(ws, wd, MinLen(ws, wd))

\* df.groupby("season"): the keys in ascending order, and for a key the rows
\* of the frame that carry it, in the order of the frame.
WholeFrame(frame, season) == frame

group_keys(frame) == SortSet({frame[k].season : k \in 1..Len(frame)})

group_rows(frame, season) == SelectSeq(frame, LAMBDA row : row.season = season)

ColumnOf(frame, name) == [k \in 1..Len(frame) |-> frame[k][name]]

\* Lines 113-114: the columns SWE and season.
with_SWE_and_season(frame) ==
    LET swe == compute_SWE(frame)
    IN  [k \in 1..Len(frame) |->
            [time |-> frame[k].time,
             temperature_2m |-> frame[k].temperature_2m,
             precipitation |-> frame[k].precipitation,
             windspeed_10m |-> frame[k].windspeed_10m,
             winddirection_10m |-> frame[k].winddirection_10m,
             SWE |-> swe[k],
             season |-> season_of(frame[k].time)]]

\* Lines 121-129: one record per group.  SWE is held in tenths of a
\* millimetre in the frame and handed on in millimetres.
season_record(frame, season) ==
    LET g == group_rows(frame, season)
        SWE == Rat(sum_skipna(ColumnOf(g, "SWE")), 10)
        ws == ColumnOf(g, "windspeed_10m")
        res == compute_snow_transport(page_T, page_F, page_theta, SWE, ws)
    IN  [season |-> season, Qt_kgm |-> res[1]]

yearly_records(frame) ==
    LET keys == group_keys(frame)
    IN  [i \in 1..Len(keys) |-> season_record(frame, keys[i])]

\* Lines 143-148: avg_sectors += compute_sector_transport(ws, wd), group
\* after group.
RECURSIVE sectors_upto(_, _, _)
sectors_upto(frame, keys, n) ==
    IF n = 0 THEN [k \in 1..NumSectors |-> <<0, 1>>]
    ELSE LET acc == sectors_upto(frame, keys, n - 1)
             g == group_rows(frame, keys[n])
             st == compute_sector_transport(ColumnOf(g, "windspeed_10m"),
                                            ColumnOf(g, "winddirection_10m"))
         IN  [k \in 1..NumSectors |-> RAdd(acc[k], st[k])]

\* Line 150: avg_sectors /= len(df["season"].unique())
unique_seasons(frame) == Cardinality({frame[k].season : k \in 1..Len(frame)})

wind_rose(frame) ==
    LET keys == group_keys(frame)
        total == sectors_upto(frame, keys, Len(keys))
    IN  [k \in 1..NumSectors |-> RMul(total[k], Rat(1, unique_seasons(frame)))]

(***************************************************************************)
(* Specification DriftPageSpec: the page script on every frame of a        *)
(* bounded set.                                                            *)
(***************************************************************************)
\* Hours on either side of the 1 July boundary of two years, a temperature
\* on either side of 1 degree C, calm and strong wind, a direction in the
\* wrap-around of sector 0 and one in sector 4.
DriftTimes ==
    {[year |-> y, month |-> m, day |-> (IF m = 6 THEN 30 ELSE 1),
      hour |-> (IF m = 6 THEN 23 ELSE 0)] : y \in {2020, 2021}, m \in {6, 7}}
DriftRows ==
    {[time |-> t, temperature_2m |-> Num(c), precipitation |-> Num(3),
      windspeed_10m |-> u, winddirection_10m |-> d] :
        t \in DriftTimes, c \in {9, 10}, u \in {1, 32}, d \in {1400, 400}}
DriftFrames == UNION {[1..n -> DriftRows] : n \in 1..MaxDriftRows}

DriftPageInit ==
    /\ drift_df \in DriftFrames
    /\ drift_records = <<>> /\ avg_sectors = <<>>
    /\ drift_pc = "fetched"
    /\ CorrOff /\ PageOff /\ SnowOff /\ FnOff /\ NavOff /\ ApiOff

DriftPrepare ==
    /\ drift_pc = "fetched"
    /\ drift_df' = with_SWE_and_season(drift_df)
    /\ drift_pc' = "prepared"
    /\ UNCHANGED <<drift_records, avg_sectors, corr_vars, page_vars, snow_vars, fn_vars, nav_vars, api_vars>>

DriftRecords ==
    /\ drift_pc = "prepared"
    /\ drift_records' = yearly_records(drift_df)
    /\ drift_pc' = "recorded"
    /\ UNCHANGED <<drift_df, avg_sectors, corr_vars, page_vars, snow_vars, fn_vars, nav_vars, api_vars>>

DriftWindRose ==
    /\ drift_pc = "recorded"
    /\ avg_sectors' = wind_rose(drift_df)
    /\ drift_pc' = "rose"
    /\ UNCHANGED <<drift_df, drift_records, corr_vars, page_vars, snow_vars, fn_vars, nav_vars, api_vars>>

DriftPageNext == DriftPrepare \/ DriftRecords \/ DriftWindRose

DriftPageSpec == DriftPageInit /\ [][DriftPageNext]_vars

(***************************************************************************)
(* Claim of the snow-drift page.                                           *)
(***************************************************************************)
DriftSeasons == {season_of(drift_df[k].time) : k \in 1..Len(drift_df)}

\* The rows of a season, by their own timestamp and temperature.
RowsOfSeason(s) == {k \in 1..Len(drift_df) : season_of(drift_df[k].time) = s}

SnowOfRow ==
    [k \in 1..Len(drift_df) |->
        IF Val(drift_df[k].temperature_2m) < 10
        THEN Val(drift_df[k].precipitation) ELSE 0]

RECURSIVE SumOver(_, _)
SumOver(S, f) ==
    IF S = {} THEN 0
    ELSE LET k == CHOOSE x \in S : TRUE IN f[k] + SumOver(S \ {k}, f)

WindOfSeason(s) ==
    LET idx == SortSet(RowsOfSeason(s))
    IN  [i \in 1..Len(idx) |-> drift_df[idx[i]].windspeed_10m]

SectorPower(k) ==
    LET rows == {r \in 1..Len(drift_df) :
                    compute_sector_index(drift_df[r].winddirection_10m) = k}
        P == [r \in 1..Len(drift_df) |-> Pow38(drift_df[r].windspeed_10m)]
    IN  SumOver(rows, P)

MinPoints == 20      \* line 27: if n < 20
ExtraPoints == 1     \* longest frame handed over: MinPoints + ExtraPoints rows

RNeg(p) == <<-p[1], p[2]>>
RSub(p, q) == RAdd(p, RNeg(q))
RSq(p) == RMul(p, p)

RECURSIVE RSum(_)
RSum(s) == IF s = <<>> THEN <<0, 1>> ELSE RAdd(Head(s), RSum(Tail(s)))

\* Line 21: df.copy().dropna(subset=["temperature_2m"])
dropna_temperature(rows) ==
    SelectSeq(rows, LAMBDA row : ~IsNaN(row.temperature_2m))

\* Line 22: df.sort_values("time"), by insertion; the timestamps of a frame
\* are distinct.
RECURSIVE InsertByTime(_, _)
InsertByTime(row, sorted) ==
    IF sorted = <<>> THEN <<row>>
    ELSE IF row.time < Head(sorted).time THEN <<row>> \o sorted
    ELSE <<Head(sorted)>> \o InsertByTime(row, Tail(sorted))

InputOrderKept(rows) == rows

RECURSIVE sort_values_time(_)
sort_values_time(rows) ==
    IF rows = <<>> THEN <<>>
    ELSE InsertByTime(rows[Len(rows)],
                      sort_values_time(SubSeq(rows, 1, Len(rows) - 1)))

\* Line 27: if n < 20
TooFewOrJustEnough(n) == n <= MinPoints

too_few(n) == n < MinPoints

\* Line 34: k = int(cutoff * n), cutoff = <<p, q>> >= 0.
CutoffRounded(cutoff, n) == (2 * cutoff[1] * n + cutoff[2]) \div (2 * cutoff[2])

cutoff_index(cutoff, n) == (cutoff[1] * n) \div cutoff[2]

\* Lines 36-37: lp = coeffs.copy(); lp[k:] = 0
ZeroBelowCutoff(n, k) == [j \in 1..n |-> ~(j - 1 < k)]

low_pass(n, k) == [j \in 1..n |-> ~(j - 1 >= k)]

\* Lines 33 and 38: idct(lp, norm="ortho") of the coefficients of
\* dct(temps, norm="ortho").  Coefficient 0 alone carries the mean of the
\* series, so four shapes of lp have a rational result: every coefficient
\* kept (the series itself), none kept (zero), coefficient 0 alone kept (the
\* mean) and coefficient 0 alone zeroed (the series less its mean).  The
\* inputs are chosen so that no other shape arises.
series_mean(temps) == Rat(SumSeq(temps), Len(temps))

idct_of_kept(temps, lp) ==
    LET n == Len(temps)
        first == lp[1]
        rest == {lp[j] : j \in 2..n}
    IN  CASE first /\ rest \subseteq {TRUE} -> [i \in 1..n |-> <<temps[i], 1>>]
          [] ~first /\ rest \subseteq {FALSE} -> [i \in 1..n |-> <<0, 1>>]
          [] first /\ rest = {FALSE} -> [i \in 1..n |-> series_mean(temps)]
          [] ~first /\ rest = {TRUE} ->
                [i \in 1..n |-> RSub(<<temps[i], 1>>, series_mean(temps))]

\* Lines 48-49: np.mean(satv), np.std(satv) (population variance).
np_mean(xs) == RMul(RSum(xs), Rat(1, Len(xs)))

np_var(xs) ==
    LET mu == np_mean(xs)
    IN  np_mean([i \in 1..Len(xs) |-> RSq(RSub(xs[i], mu))])

\* Lines 50-51: UCL = mu + std_thresh * sigma, LCL = mu - std_thresh * sigma
SwappedLimits(mu, std_thresh, var) ==
    [UCL |-> <<mu, RNeg(std_thresh), var>>, LCL |-> <<mu, std_thresh, var>>]

spc_limits(mu, std_thresh, var) ==
    [UCL |-> <<mu, std_thresh, var>>, LCL |-> <<mu, RNeg(std_thresh), var>>]

\* x > mu + c * sigma
AtOrAboveLimit(x, limit) ==
    LET d == RSub(x, limit[1])
        c2v == RMul(RSq(limit[2]), limit[3])
    IN  IF limit[2][1] >= 0 THEN RGe(d, <<0, 1>>) /\ RGe(RSq(d), c2v)
        ELSE RGt(d, <<0, 1>>) \/ RGe(c2v, RSq(d))

above_limit(x, limit) ==
    LET d == RSub(x, limit[1])
        c2v == RMul(RSq(limit[2]), limit[3])
    IN  IF limit[2][1] >= 0 THEN RGt(d, <<0, 1>>) /\ RGt(RSq(d), c2v)
        ELSE RGe(d, <<0, 1>>) \/ RGt(c2v, RSq(d))

\* x < mu + c * sigma
below_limit(x, limit) ==
    above_limit(RNeg(x), <<RNeg(limit[1]), RNeg(limit[2]), limit[3]>>)

ErrNotEnough == "Not enough data points for SATV/SPC."

\* Line 43: satv = temps - smoothed
residual(temps, smoothed) ==
    [i \in 1..Len(temps) |-> RSub(<<temps[i], 1>>, smoothed[i])]

detect_temperature_outliers(frame, cutoff, std_thresh) ==
    LET sorted == sort_values_time(dropna_temperature(frame))
        temps == [i \in 1..Len(sorted) |-> Val(sorted[i].temperature_2m)]
        n == Len(temps)
        k == cutoff_index(cutoff, n)
        lp == low_pass(n, k)
        smoothed == idct_of_kept(temps, lp)
        satv == residual(temps, smoothed)
        mu == np_mean(satv)
        var == np_var(satv)
        lim == spc_limits(mu, std_thresh, var)
    IN  IF too_few(n)
        THEN [raised |-> "ValueError", message |-> ErrNotEnough]
        ELSE [raised |-> "",
              lp |-> lp,
              frame |->
                [i \in 1..n |->
                    [time |-> sorted[i].time,
                     temperature |-> temps[i],
                     smoothed |-> smoothed[i],
                     SATV |-> satv[i],
                     UCL |-> lim.UCL,
                     LCL |-> lim.LCL,
                     outlier |-> above_limit(satv[i], lim.UCL)
                                 \/ below_limit(satv[i], lim.LCL)]]]

(***************************************************************************)
(* Specification OutlierSpec: detect_temperature_outliers on every frame,  *)
(* cutoff and threshold of a bounded set.                                  *)
(***************************************************************************)
\* A frame has one row per hour 0 .. rows-1.  Its temperatures are flat or
\* alternate between 1 and -1, with a spike on the first row, on the last
\* row or on both; row 3 may lack its temperature; the first two rows may be
\* handed over in the wrong order.
FrameLengths == (MinPoints - 1)..(MinPoints + ExtraPoints)
Shapes == {"flat", "alternating"}
Spikes == {<<0, 0>>, <<7, 0>>, <<0, -6>>, <<7, -7>>}

TemperatureAt(len, shape, spike, missing, h) ==
    IF missing /\ h = 3 THEN NaN
    ELSE IF h = 0 /\ spike[1] # 0 THEN Num(spike[1])
    ELSE IF h = len - 1 /\ spike[2] # 0 THEN Num(spike[2])
    ELSE IF shape = "flat" THEN Num(0)
    ELSE IF h % 2 = 0 THEN Num(1) ELSE Num(-1)

HourOfRow(i, swapped) ==
    IF swapped /\ i = 1 THEN 1 ELSE IF swapped /\ i = 2 THEN 0 ELSE i - 1

OutlierFrames ==
    {[i \in 1..len |->
         [time |-> HourOfRow(i, swapped),
          temperature_2m |->
              TemperatureAt(len, shape, spike, missing, HourOfRow(i, swapped))]] :
        len \in FrameLengths, shape \in Shapes, spike \in Spikes,
        missing \in BOOLEAN, swapped \in BOOLEAN}

\* 0.04 and 0.05 of the page's slider (0.01 .. 0.5), and 1.0.
Cutoffs == {<<1, 25>>, <<1, 20>>, <<1, 1>>}
Thresholds == {<<0, 1>>, <<1, 1>>, <<3, 2>>, <<3, 1>>}

OutlierInputs ==
    {[fn |-> "detect_temperature_outliers", df |-> f, cutoff |-> c,
      std_thresh |-> t] :
        f \in OutlierFrames, c \in Cutoffs, t \in Thresholds}

\* Lines 33-38 alone, for a series of n values: the cutoffs 0.01 .. 0.5 of
\* the page's slider leave coefficient counts that idct_of_kept does not
\* cover.
MaxExtraCoefficients == 5   \* longest series of the low-pass step: MinPoints + 5
SliderCutoffs == {<<1, 100>>, <<1, 20>>, <<1, 10>>, <<1, 4>>, <<33, 100>>, <<1, 2>>}
LowPassInputs ==
    {[fn |-> "dct_low_pass", n |-> n, cutoff |-> c] :
        n \in MinPoints..(MinPoints + MaxExtraCoefficients), c \in SliderCutoffs}

dct_low_pass(n, cutoff) ==
    LET lp == low_pass(n, cutoff_index(cutoff, n))
    IN  [raised |-> "", lp |-> lp, smoothed_len |-> Len(lp)]

OutlierInit ==
    /\ fn_in \in OutlierInputs \cup LowPassInputs
    /\ fn_out = None
    /\ fn_pc = "ready"
    /\ CorrOff /\ PageOff /\ SnowOff /\ DriftOff /\ NavOff /\ ApiOff

Call_detect_temperature_outliers ==
    /\ fn_pc = "ready" /\ fn_in.fn = "detect_temperature_outliers"
    /\ fn_out' = detect_temperature_outliers(fn_in.df, fn_in.cutoff,
                                             fn_in.std_thresh)
    /\ fn_pc' = "done"
    /\ UNCHANGED <<fn_in, corr_vars, page_vars, snow_vars, drift_vars, nav_vars,
                   api_vars>>

Call_dct_low_pass ==
    /\ fn_pc = "ready" /\ fn_in.fn = "dct_low_pass"
    /\ fn_out' = dct_low_pass(fn_in.n, fn_in.cutoff)
    /\ fn_pc' = "done"
    /\ UNCHANGED <<fn_in, corr_vars, page_vars, snow_vars, drift_vars, nav_vars,
                   api_vars>>

OutlierNext == Call_detect_temperature_outliers \/ Call_dct_low_pass

OutlierSpec == OutlierInit /\ [][OutlierNext]_vars

(***************************************************************************)
(* Claims of detect_temperature_outliers.                                  *)
(***************************************************************************)
Detected ==
    /\ fn_pc = "done" /\ fn_in.fn = "detect_temperature_outliers"
    /\ fn_out.raised = ""

\* C12: UCL = mean(SATV) + std_thresh * sigma(SATV) and LCL = mean(SATV) -
\* std_thresh * sigma(SATV) are computed once over the whole series, the
\* same on every row, with SATV = temperature - smoothed, and a row is an
\* outlier exactly when its SATV is strictly above UCL or strictly below
\* LCL: its squared distance from the mean strictly exceeds
\* std_thresh^2 * sigma^2.
C12_GlobalLimitsStrict ==
    Detected =>
        LET f == fn_out.frame
            n == Len(f)
            t == fn_in.std_thresh
            satv == [i \in 1..n |-> f[i].SATV]
            M == f[1].UCL[1]
            V == f[1].UCL[3]
        IN  /\ \A i \in 1..n :
                  /\ f[i].SATV = RSub(<<f[i].temperature, 1>>, f[i].smoothed)
                  /\ f[i].UCL = <<M, t, V>>
                  /\ f[i].LCL = <<M, RNeg(t), V>>
                  /\ f[i].outlier =
                        RGt(RSq(RSub(f[i].SATV, M)), RMul(RSq(t), V))
            /\ RMul(M, <<n, 1>>) = RSum(satv)
            /\ RMul(V, <<n, 1>>) = RSum([i \in 1..n |-> RSq(RSub(satv[i], M))])

C12_Witness ==
    /\ Detected
    /\ \E i, j \in 1..Len(fn_out.frame) :
          LET f == fn_out.frame
          IN  /\ f[i].UCL[3] # <<0, 1>>
              /\ RSq(RSub(f[i].SATV, f[i].UCL[1]))
                     = RMul(RSq(fn_in.std_thresh), f[i].UCL[3])
              /\ ~f[i].outlier
              /\ f[j].outlier

Flagged(result) ==
    {i \in 1..Len(result.frame) : result.frame[i].outlier}

AtThreshold(t) ==
    detect_temperature_outliers(fn_in.df, fn_in.cutoff, t)

\* C13: for the same data and cutoff, the rows flagged with a threshold
\* k2 >= k1 >= 0 are among the rows flagged with k1, so the number of
\* outliers never grows with std_thresh.
C13_ThresholdMonotone ==
    Detected =>
        \A t2 \in Thresholds :
            RGe(t2, fn_in.std_thresh) =>
                /\ Flagged(AtThreshold(t2)) \subseteq Flagged(fn_out)
                /\ Cardinality(Flagged(AtThreshold(t2)))
                       <= Cardinality(Flagged(fn_out))

C13_Witness ==
    /\ Detected
    /\ \E t2 \in Thresholds :
          /\ RGt(t2, fn_in.std_thresh)
          /\ Flagged(AtThreshold(t2)) # {}
          /\ Flagged(AtThreshold(t2)) # Flagged(fn_out)
          /\ Flagged(AtThreshold(t2)) \subseteq Flagged(fn_out)

Called ==
    fn_pc = "done" /\ fn_in.fn = "detect_temperature_outliers"

Remaining ==
    {i \in 1..Len(fn_in.df) : fn_in.df[i].temperature_2m # NaN}

\* C14: the call raises ValueError, with nothing smoothed and no limit
\* computed, whenever fewer than 20 rows have a temperature, and returns a
\* result whenever 20 or more have one; the result has exactly the rows that
\* have a temperature, none added and none removed.
C14_MinimumTwentyRows ==
    Called =>
        /\ Cardinality(Remaining) < 20 =>
              fn_out = [raised |-> "ValueError", message |-> ErrNotEnough]
        /\ Cardinality(Remaining) >= 20 =>
              /\ fn_out.raised = ""
              /\ Len(fn_out.frame) = Cardinality(Remaining)
              /\ {fn_out.frame[i].time : i \in 1..Len(fn_out.frame)}
                     = {fn_in.df[i].time : i \in Remaining}

C14_Witness ==
    /\ Called
    /\ Len(fn_in.df) = 21
    /\ Cardinality(Remaining) = 20
    /\ fn_out.raised = ""
    /\ Len(fn_out.frame) = 20

\* The length N of the series that reached the low-pass step.
Smoothed ==
    /\ fn_pc = "done"
    /\ fn_in.fn \in {"detect_temperature_outliers", "dct_low_pass"}
    /\ fn_out.raised = ""

SeriesLength ==
    IF fn_in.fn = "dct_low_pass" THEN fn_in.n ELSE Cardinality(Remaining)

SmoothedLength ==
    IF fn_in.fn = "dct_low_pass" THEN fn_out.smoothed_len ELSE Len(fn_out.frame)

InClaimedRange(cutoff) == cutoff[1] > 0 /\ 2 * cutoff[1] <= cutoff[2]

\* C15 as stated: the low-pass step keeps exactly the coefficients with
\* index < cutoff * N and zeroes those with index >= cutoff * N.
C15_Original ==
    (Smoothed /\ InClaimedRange(fn_in.cutoff)) =>
        \A idx \in 0..(SeriesLength - 1) :
            At(fn_out.lp, idx) =
                (idx * fn_in.cutoff[2] < fn_in.cutoff[1] * SeriesLength)

\* C15: for N >= 20 and a cutoff in (0, 0.5], the low-pass step keeps
\* exactly the coefficients with index < floor(cutoff * N), zeroes every
\* coefficient with index >= floor(cutoff * N), and the smoothed series has
\* the length N of the input.
C15_KeepsFloorOfCutoffTimesN ==
    (Smoothed /\ InClaimedRange(fn_in.cutoff)) =>
        /\ SeriesLength >= 20
        /\ Len(fn_out.lp) = SeriesLength
        /\ SmoothedLength = SeriesLength
        /\ \A idx \in 0..(SeriesLength - 1) :
              At(fn_out.lp, idx) =
                  ((idx + 1) * fn_in.cutoff[2] <= fn_in.cutoff[1] * SeriesLength)

C15_Witness ==
    /\ Smoothed /\ InClaimedRange(fn_in.cutoff)
    /\ \E idx \in 1..(SeriesLength - 1) :
          /\ idx * fn_in.cutoff[2] < fn_in.cutoff[1] * SeriesLength
          /\ ~At(fn_out.lp, idx)
          /\ At(fn_out.lp, idx - 1)

TimesOf(frame) == [i \in 1..Len(frame) |-> frame[i].time]

\* C17 as stated: the rows of the result are the input rows that have a
\* temperature, in the order in which they appear in the input.
C17_Original ==
    Detected =>
        TimesOf(fn_out.frame)
            = TimesOf(SelectSeq(fn_in.df,
                                LAMBDA row : row.temperature_2m # NaN))

\* C17: the result has one row per input row that has a temperature, in
\* ascending order of time (the order of the input when the input is in
\* ascending order of time), each with that input row's time and
\* temperature, with smoothed + SATV = temperature and a boolean flag.
C17_RowsByAscendingTime ==
    Detected =>
        LET f == fn_out.frame
        IN  /\ Len(f) = Cardinality(Remaining)
            /\ \A i, j \in 1..Len(f) : i < j => f[i].time < f[j].time
            /\ \A i \in 1..Len(f) :
                  /\ \E r \in Remaining :
                        /\ fn_in.df[r].time = f[i].time
                        /\ fn_in.df[r].temperature_2m = Num(f[i].temperature)
                  /\ RAdd(f[i].smoothed, f[i].SATV) = <<f[i].temperature, 1>>
                  /\ f[i].outlier \in BOOLEAN
            /\ (\A a, b \in Remaining :
                    a < b => fn_in.df[a].time < fn_in.df[b].time)
                   => TimesOf(f) = TimesOf(SelectSeq(fn_in.df,
                                      LAMBDA row : row.temperature_2m # NaN))

C17_Witness ==
    /\ Detected
    /\ fn_in.df[1].time > fn_in.df[2].time
    /\ fn_in.df[1].temperature_2m = Num(-1)
    /\ fn_in.df[2].temperature_2m = Num(7)
    /\ fn_out.frame[1].time = fn_in.df[2].time
    /\ fn_out.frame[1].temperature = 7
    /\ fn_out.frame[2].temperature = -1
    /\ Len(fn_out.frame) < Len(fn_in.df)

(***************************************************************************)
(* Putting an energy series on the hourly grid: plots.py lines 312-317 and *)
(* 404-409, Forecast_SARIMAX.py lines 57-75, Sliding_Window_Correlation.py *)
(* lines 149-152.                                                          *)
(*                                                                         *)
(* A timestamp is a whole hour.  A prepared series is the record           *)
(* [start, numeric, other]: the hour of its first entry, one numeric cell  *)
(* per hour (NaN or a rational) and, where the pipeline carries a          *)
(* non-numeric column, one cell per hour of that column.                   *)
(***************************************************************************)
MaxHour == 3         \* latest hour of an input row
MaxPrepRows == 3     \* most rows of an input frame

MinOf(S) == CHOOSE x \in S : \A y \in S : x <= y
MaxOf(S) == CHOOSE x \in S : \A y \in S : x >= y

TimesIn(rows) == {rows[k].starttime : k \in 1..Len(rows)}

RowsAt(rows, t) == SelectSeq(rows, LAMBDA row : row.starttime = t)

\* groupby(...).sum() and groupby(...).first() at one key.
group_sum(rows, t) ==
    SumSeq([k \in 1..Len(RowsAt(rows, t)) |-> RowsAt(rows, t)[k].quantitykwh])

group_first(rows, t) == RowsAt(rows, t)[1].group

\* resample("h").mean() at one hour of the raw rows.
group_mean(rows, t) ==
    Rat(group_sum(rows, t), Len(RowsAt(rows, t)))

GridHours(rows) == MinOf(TimesIn(rows))..MaxOf(TimesIn(rows))

\* .asfreq("h") and .resample("h"): one cell per hour from the first to the
\* last timestamp, NaN where the hour has no row.
on_hourly_grid(rows, value) ==
    LET first == MinOf(TimesIn(rows))
    IN  [k \in 1..Cardinality(GridHours(rows)) |->
            IF first + k - 1 \in TimesIn(rows)
            THEN value[first + k - 1] ELSE NaN]

\* Series.interpolate(): a NaN between two values lies on the line through
\* the nearest value before and the nearest value after it; a NaN after the
\* last value repeats it; a NaN before the first value stays.
interpolate_at(vals, i) ==
    LET before == {a \in 1..(i - 1) : ~IsNaN(vals[a])}
        after == {b \in (i + 1)..Len(vals) : ~IsNaN(vals[b])}
    IN  IF ~IsNaN(vals[i]) THEN vals[i]
        ELSE IF before = {} THEN NaN
        ELSE IF after = {} THEN vals[MaxOf(before)]
        ELSE LET a == MaxOf(before)
                 b == MinOf(after)
             IN  RAdd(vals[a],
                      RMul(RSub(vals[b], vals[a]), Rat(i - a, b - a)))

interpolate(vals) == [i \in 1..Len(vals) |-> interpolate_at(vals, i)]

\* The aggregate of every timestamp of the frame.
sums_by_time(rows) == [t \in TimesIn(rows) |-> <<group_sum(rows, t), 1>>]
firsts_by_time(rows) == [t \in TimesIn(rows) |-> Num(group_first(rows, t))]
means_by_time(rows) == [t \in TimesIn(rows) |-> group_mean(rows, t)]

\* plots.py 312-317, 404-409:
\* df.groupby("starttime")["quantitykwh"].sum().asfreq("h").interpolate()
plots_prepare(rows) ==
    [start |-> MinOf(TimesIn(rows)),
     numeric |-> interpolate(on_hourly_grid(rows, sums_by_time(rows))),
     other |-> <<>>]

\* Forecast_SARIMAX.py 63-73: groupby(index).sum() then
\* resample("h").mean().interpolate(); groupby(index).first() then
\* resample("h").ffill().
sarimax_prepare(rows) ==
    [start |-> MinOf(TimesIn(rows)),
     numeric |-> interpolate(on_hourly_grid(rows, sums_by_time(rows))),
     other |-> ffill(on_hourly_grid(rows, firsts_by_time(rows)))]

\* Sliding_Window_Correlation.py 151: resample("1H").mean().ffill()
correlation_prepare(rows) ==
    [start |-> MinOf(TimesIn(rows)),
     numeric |-> ffill(on_hourly_grid(rows, means_by_time(rows))),
     other |-> <<>>]

(***************************************************************************)
(* Specification PrepSpec: the three pipelines on every frame of a bounded *)
(* set.                                                                    *)
(***************************************************************************)
\* Rows in ascending order of time, several rows of one hour allowed.
PrepRows ==
    {[starttime |-> t, quantitykwh |-> q, group |-> g] :
        t \in 0..MaxHour, q \in {2, 5}, g \in {"hydro", "wind"}}
PrepFrames ==
    {f \in UNION {[1..n -> PrepRows] : n \in 1..MaxPrepRows} :
        \A k \in 1..(Len(f) - 1) : f[k].starttime <= f[k + 1].starttime}
Pipelines == {"plots_prepare", "sarimax_prepare", "correlation_prepare"}
PrepInputs == {[fn |-> p, df |-> f] : p \in Pipelines, f \in PrepFrames}

PrepInit ==
    /\ fn_in \in PrepInputs
    /\ fn_out = None
    /\ fn_pc = "ready"
    /\ CorrOff /\ PageOff /\ SnowOff /\ DriftOff /\ NavOff /\ ApiOff

Call_plots_prepare ==
    /\ fn_pc = "ready" /\ fn_in.fn = "plots_prepare"
    /\ fn_out' = plots_prepare(fn_in.df)
    /\ fn_pc' = "done"
    /\ UNCHANGED <<fn_in, corr_vars, page_vars, snow_vars, drift_vars, nav_vars,
                   api_vars>>

Call_sarimax_prepare ==
    /\ fn_pc = "ready" /\ fn_in.fn = "sarimax_prepare"
    /\ fn_out' = sarimax_prepare(fn_in.df)
    /\ fn_pc' = "done"
    /\ UNCHANGED <<fn_in, corr_vars, page_vars, snow_vars, drift_vars, nav_vars,
                   api_vars>>

Call_correlation_prepare ==
    /\ fn_pc = "ready" /\ fn_in.fn = "correlation_prepare"
    /\ fn_out' = correlation_prepare(fn_in.df)
    /\ fn_pc' = "done"
    /\ UNCHANGED <<fn_in, corr_vars, page_vars, snow_vars, drift_vars, nav_vars,
                   api_vars>>

PrepNext ==
    \/ Call_plots_prepare
    \/ Call_sarimax_prepare
    \/ Call_correlation_prepare

PrepSpec == PrepInit /\ [][PrepNext]_vars

(***************************************************************************)
(* Claims of the hourly grid.                                              *)
(***************************************************************************)
Prepared == fn_pc = "done" /\ fn_in.fn \in Pipelines

InputRowsAt(t) == {k \in 1..Len(fn_in.df) : fn_in.df[k].starttime = t}

InputSumAt(t) ==
    SumOver(InputRowsAt(t), [k \in 1..Len(fn_in.df) |-> fn_in.df[k].quantitykwh])

PreparedAt(cells, t) == cells[t - fn_out.start + 1]

\* C18: in each of the pipelines (STL and spectrogram preparation, SARIMAX
\* page, correlation page) the numeric value at a timestamp that occurs
\* several times in the input is the sum of the input values at that
\* timestamp, and a non-numeric column keeps the value of the first
\* occurrence.
C18_DuplicatesSummed ==
    Prepared =>
        \A t \in TimesIn(fn_in.df) :
            Cardinality(InputRowsAt(t)) > 1 =>
                /\ PreparedAt(fn_out.numeric, t) = <<InputSumAt(t), 1>>
                /\ fn_out.other # <<>> =>
                      PreparedAt(fn_out.other, t)
                          = Num(fn_in.df[MinOf(InputRowsAt(t))].group)

ObservedBefore(t) == {a \in TimesIn(fn_in.df) : a < t}
ObservedAfter(t) == {b \in TimesIn(fn_in.df) : b > t}

OnTheLine(t) ==
    LET a == MaxOf(ObservedBefore(t))
        b == MinOf(ObservedAfter(t))
        va == PreparedAt(fn_out.numeric, a)
        vb == PreparedAt(fn_out.numeric, b)
    IN  RAdd(va, RMul(RSub(vb, va), Rat(t - a, b - a)))

\* C19: a prepared series has exactly one entry for every hour from its
\* first to its last input timestamp, and an hour without an observation
\* holds, in a numeric channel, the linear interpolation between the nearest
\* observed hours before and after it, and in a categorical channel the
\* value of the last earlier observed hour.
C19_HourlyGridInterpolated ==
    Prepared =>
        /\ fn_out.start = MinOf(TimesIn(fn_in.df))
        /\ Len(fn_out.numeric) = MaxOf(TimesIn(fn_in.df)) - fn_out.start + 1
        /\ fn_out.other # <<>> => Len(fn_out.other) = Len(fn_out.numeric)
        /\ \A t \in GridHours(fn_in.df) \ TimesIn(fn_in.df) :
              /\ PreparedAt(fn_out.numeric, t) = OnTheLine(t)
              /\ fn_out.other # <<>> =>
                    PreparedAt(fn_out.other, t)
                        = PreparedAt(fn_out.other, MaxOf(ObservedBefore(t)))

(***************************************************************************)
(* plots.py : plot_spectrogram, lines 399-418.                             *)
(***************************************************************************)
MaxSpectroLen == 6     \* longest short frame handed to plot_spectrogram
MaxSpectroWindow == 4  \* largest window tried on the short frames

ErrShort == "Data length is shorter than the window size."
ErrOverlap == "noverlap must be less than nperseg."

\* Line 411: noverlap = int(window * (overlap / 100))
OverlapRounded(window_len, overlap) == (2 * window_len * overlap + 100) \div 200

overlap_samples(window_len, overlap) == (window_len * overlap) \div 100

\* scipy.signal.spectrogram(x, fs=1.0, nperseg, noverlap), line 414: a
\* segment longer than the series is cut to the series, an overlap that is
\* not below the segment is refused, segments start every nperseg - noverlap
\* samples and none runs past the end; each is reported at its centre.
segment_starts(N, nperseg, noverlap) ==
    LET step == nperseg - noverlap
    IN  [j \in 1..((N - noverlap) \div step) |-> (j - 1) * step]

SegmentStartTimes(N, nperseg, noverlap) ==
    LET starts == segment_starts(N, nperseg, noverlap)
    IN  [j \in 1..Len(starts) |-> <<starts[j], 1>>]

segment_times(N, nperseg, noverlap) ==
    LET starts == segment_starts(N, nperseg, noverlap)
    IN  [j \in 1..Len(starts) |-> Rat(2 * starts[j] + nperseg, 2)]

\* Line 418: pd.to_datetime(ts.index[0]) + pd.to_timedelta(t, unit="h")
time_labels_of(index0, t) == [j \in 1..Len(t) |-> RAdd(<<index0, 1>>, t[j])]

plot_spectrogram(rows, window_len, overlap) ==
    LET ts == plots_prepare(rows)
        N == Len(ts.numeric)
        nperseg == IF window_len > N THEN N ELSE window_len
        noverlap == overlap_samples(window_len, overlap)
    IN  IF Len(rows) < window_len
        THEN [raised |-> "ValueError", message |-> ErrShort]
        ELSE IF noverlap >= nperseg
        THEN [raised |-> "ValueError", message |-> ErrOverlap]
        ELSE [raised |-> "",
              N |-> N,
              nperseg |-> nperseg,
              noverlap |-> noverlap,
              t |-> segment_times(N, nperseg, noverlap),
              index0 |-> ts.start,
              time_labels |->
                  time_labels_of(ts.start, segment_times(N, nperseg, noverlap))]

(***************************************************************************)
(* Specification SpectroSpec: plot_spectrogram on hourly frames of a       *)
(* bounded set, one of them the 720 hours of a 30-day month.               *)
(***************************************************************************)
\* One row per hour 0 .. n-1, as it is, with the row of hour 0 twice, or
\* with the row of hour 1 missing.
HourlyRows(n) ==
    [k \in 1..n |-> [starttime |-> k - 1, quantitykwh |-> 2, group |-> "hydro"]]
WithDuplicate(rows) == <<rows[1]>> \o rows
WithGap(rows) == SelectSeq(rows, LAMBDA row : row.starttime # 1)
StartingAt(h, rows) ==
    [k \in 1..Len(rows) |->
        [starttime |-> rows[k].starttime + h, quantitykwh |-> rows[k].quantitykwh,
         group |-> rows[k].group]]
SpectroFrames ==
    UNION {{HourlyRows(n), WithDuplicate(HourlyRows(n))} : n \in 1..MaxSpectroLen}
        \cup {WithGap(HourlyRows(n)) : n \in 3..MaxSpectroLen}
        \cup {StartingAt(5, HourlyRows(n)) : n \in 3..MaxSpectroLen}
        \cup {HourlyRows(720)}
SpectroWindows == (2..MaxSpectroWindow) \cup {24, 168}
SpectroOverlaps == {0, 25, 50, 90}
SpectroInputs ==
    {[fn |-> "plot_spectrogram", df |-> f, window |-> w, overlap |-> o] :
        f \in SpectroFrames, w \in SpectroWindows, o \in SpectroOverlaps}

SpectroInit ==
    /\ fn_in \in SpectroInputs
    /\ fn_out = None
    /\ fn_pc = "ready"
    /\ CorrOff /\ PageOff /\ SnowOff /\ DriftOff /\ NavOff /\ ApiOff

Call_plot_spectrogram ==
    /\ fn_pc = "ready" /\ fn_in.fn = "plot_spectrogram"
    /\ fn_out' = plot_spectrogram(fn_in.df, fn_in.window, fn_in.overlap)
    /\ fn_pc' = "done"
    /\ UNCHANGED <<fn_in, corr_vars, page_vars, snow_vars, drift_vars, nav_vars,
                   api_vars>>

SpectroNext == Call_plot_spectrogram

SpectroSpec == SpectroInit /\ [][SpectroNext]_vars

(***************************************************************************)
(* Claim of the spectrogram windows.                                       *)
(***************************************************************************)
Plotted ==
    /\ fn_pc = "done" /\ fn_in.fn = "plot_spectrogram"
    /\ fn_out.raised = ""

\* Length of the aggregated hourly series: the hours from the first to the
\* last timestamp of the frame.
AggregatedLength ==
    MaxOf(TimesIn(fn_in.df)) - MinOf(TimesIn(fn_in.df)) + 1

\* C20 as stated: the overlap is window * overlap_pct / 100 samples and the
\* spectrogram has floor((N - window) / (window - overlap)) + 1 windows.
C20_Original ==
    (Plotted /\ AggregatedLength >= fn_in.window) =>
        /\ 100 * fn_out.noverlap = fn_in.window * fn_in.overlap
        /\ Len(fn_out.t) =
              (100 * (AggregatedLength - fn_in.window))
                  \div (fn_in.window * (100 - fn_in.overlap)) + 1

\* C20: for an aggregated hourly series of length N >= window and
\* overlap_pct in 0..90, the overlap is floor(window * overlap_pct / 100)
\* samples, strictly fewer than the window, and the spectrogram has exactly
\* floor((N - window) / (window - overlap)) + 1 time windows; for N = 720,
\* window = 168, overlap_pct = 50 that is 84 samples and 7 windows.
C20_WindowCount ==
    (fn_pc = "done" /\ fn_in.fn = "plot_spectrogram"
        /\ Len(fn_in.df) >= fn_in.window
        /\ AggregatedLength >= fn_in.window) =>
        /\ fn_out.raised = ""
        /\ 100 * fn_out.noverlap <= fn_in.window * fn_in.overlap
        /\ 100 * (fn_out.noverlap + 1) > fn_in.window * fn_in.overlap
        /\ fn_out.noverlap < fn_in.window
        /\ LET step == fn_in.window - fn_out.noverlap
               m == Len(fn_out.t)
               room == AggregatedLength - fn_in.window
           IN  m >= 1 /\ (m - 1) * step <= room /\ room < m * step
        /\ (AggregatedLength = 720 /\ fn_in.window = 168 /\ fn_in.overlap = 50) =>
              fn_out.noverlap = 84 /\ Len(fn_out.t) = 7

C20_Witness ==
    /\ Plotted
    /\ fn_out.N = 720 /\ fn_in.window = 168 /\ fn_in.overlap = 50
    /\ fn_out.noverlap = 84
    /\ Len(fn_out.t) = 7

SpectroCalled == fn_pc = "done" /\ fn_in.fn = "plot_spectrogram"

\* C21: plot_spectrogram raises an error, before anything is computed,
\* exactly when the aggregated hourly series is shorter than `window`
\* samples: a frame with duplicate timestamps or gaps is accepted or
\* rejected by the length of the aggregated series, not by its row count.
C21_GuardOnAggregatedLength ==
    SpectroCalled =>
        ((fn_out.raised = "ValueError") <=> (AggregatedLength < fn_in.window))

\* C22 as stated: entry k of the time axis is the timestamp of the first
\* sample of window k, the first timestamp plus k * (window - overlap) hours.
C22_Original ==
    (Plotted /\ AggregatedLength >= fn_in.window) =>
        \A k \in 0..(Len(fn_out.time_labels) - 1) :
            At(fn_out.time_labels, k) =
                <<MinOf(TimesIn(fn_in.df))
                      + k * (fn_in.window - fn_out.noverlap), 1>>

\* C22: for an aggregated series of at least `window` samples, entry k of
\* the time axis is the centre of window k: the first timestamp of the
\* series plus window / 2 + k * (window - overlap) hours.
C22_TimeAxisAtWindowCentres ==
    (Plotted /\ AggregatedLength >= fn_in.window) =>
        \A k \in 0..(Len(fn_out.time_labels) - 1) :
            At(fn_out.time_labels, k) =
                Rat(2 * MinOf(TimesIn(fn_in.df)) + fn_in.window
                        + 2 * k * (fn_in.window - fn_out.noverlap), 2)

C22_Witness ==
    /\ Plotted /\ AggregatedLength >= fn_in.window
    /\ MinOf(TimesIn(fn_in.df)) = 5
    /\ fn_in.window = 3 /\ fn_out.noverlap = 1
    /\ Len(fn_out.time_labels) >= 2
    /\ At(fn_out.time_labels, 0) = <<13, 2>>
    /\ At(fn_out.time_labels, 1) = <<17, 2>>


\* ---------------------------------------------------------------------
\* STL decomposition: plots.py plot_stl_decomposition and tab 1 of
\* 03_Energy_STL_&_Spectrogram.py.
\* ---------------------------------------------------------------------

MaxStlLen == 4
StlPeriod == 24     \* period of an index of frequency "h" (.asfreq("h"))

ErrPeriod == "Unable to determine period from endog"
ErrSeasonal == "seasonal must be an odd positive integer >= 3"
ErrTrend == "trend must be an odd positive integer >= 3 where trend > period"
ErrFewCycles == "fewer than two periods of data"
ErrNumberInput == "StreamlitAPIException"
WarnNoData == "No data found for this selection."

IsOdd(n) == n % 2 = 1

\* One smoothed component handed back by the fit, as long as the series.
\* The loess passes are not computed: a component is one of a few series.
stl_component(shape, observed) ==
    [i \in 1..Len(observed) |->
        CASE shape = "zero" -> <<0, 1>>
          [] shape = "ramp" -> <<i, 1>>
          [] shape = "half" -> RMul(observed[i], <<1, 2>>)]

NoSeasonalRemoved(observed, seasonal_c, trend_c) ==
    [i \in 1..Len(observed) |-> RSub(observed[i], trend_c[i])]

\* STL.fit(): resid = observed - seasonal - trend.
stl_resid(observed, seasonal_c, trend_c) ==
    [i \in 1..Len(observed) |->
        RSub(RSub(observed[i], seasonal_c[i]), trend_c[i])]

\* STL(ts, seasonal=seasonal, trend=trend, robust=True): the constructor's
\* checks, in its order; "" when the arguments are accepted.
stl_rejects(nobs, seasonal, trend) ==
    IF nobs < 3 THEN ErrPeriod
    ELSE IF ~IsOdd(seasonal) \/ seasonal < 3 THEN ErrSeasonal
    ELSE IF ~IsOdd(trend) \/ trend < 3 \/ trend <= StlPeriod THEN ErrTrend
    ELSE ""

\* `fit` holds what the library is left to decide: the two smoothed
\* components, and whether a series of fewer than two periods is fitted.
plot_stl_decomposition(rows, seasonal, trend, fit) ==
    LET ts == plots_prepare(rows)
        N == Len(ts.numeric)
        trend_c == stl_component(fit.trend, ts.numeric)
        seasonal_c == stl_component(fit.seasonal, ts.numeric)
    IN  IF stl_rejects(N, seasonal, trend) # ""
        THEN [raised |-> "ValueError",
              message |-> stl_rejects(N, seasonal, trend)]
        ELSE IF N < 2 * StlPeriod /\ ~fit.short_series_fitted
        THEN [raised |-> "ValueError", message |-> ErrFewCycles]
        ELSE [raised |-> "",
              seasonal_window |-> seasonal,
              trend_window |-> trend,
              x |-> [i \in 1..N |-> ts.start + i - 1],
              original |-> ts.numeric,
              trend |-> trend_c,
              seasonal |-> seasonal_c,
              resid |-> stl_resid(ts.numeric, seasonal_c, trend_c)]

\* st.number_input(min_value, max_value, value): an error when the bounds
\* cross or the default lies outside them, else the number the user left
\* or typed, which lies within the bounds.
number_input_fails(min_value, max_value, value) ==
    min_value > max_value \/ value < min_value \/ value > max_value

seasonal_max(trend) == IF trend - 1 < 179 THEN trend - 1 ELSE 179

\* Tab 1, lines 105-139.
stl_tab(subset, trend, seasonal, fit) ==
    IF number_input_fails(3, seasonal_max(trend), 25)
    THEN [raised |-> ErrNumberInput]
    ELSE IF subset = <<>>
    THEN [raised |-> "", warning |-> WarnNoData]
    ELSE plot_stl_decomposition(subset, seasonal, trend, fit)

StlFrames ==
    {HourlyRows(1), HourlyRows(2 * StlPeriod),
     WithDuplicate(HourlyRows(2 * StlPeriod)),
     WithGap(HourlyRows(2 * StlPeriod)),
     StartingAt(5, HourlyRows(2 * StlPeriod))}
        \cup {HourlyRows(n) : n \in 3..MaxStlLen}
        \cup {WithGap(HourlyRows(MaxStlLen))}
StlWindows == {3, 4, 25, 26, 27, 169, 179, 365}
StlFits ==
    [trend : {"zero", "ramp", "half"}, seasonal : {"zero", "ramp", "half"},
     short_series_fitted : BOOLEAN]

\* A direct call takes any two integers; the page delivers a trend within
\* 3..365 and a seasonal value within 3..seasonal_max(trend), or none when
\* the seasonal input fails.
StlDirectInputs ==
    {[fn |-> "plot_stl_decomposition", df |-> f, seasonal |-> s, trend |-> t] :
        f \in StlFrames, s \in StlWindows \cup {30}, t \in StlWindows \cup {90}}
StlPageInputs ==
    {[fn |-> "stl_tab", df |-> f, seasonal |-> s, trend |-> t] :
        f \in StlFrames \cup {<<>>},
        s \in StlWindows,
        t \in StlWindows} 

StlDeliverable(in) ==
    in.fn = "stl_tab" =>
        /\ in.trend >= 3 /\ in.trend <= 365
        /\ \/ number_input_fails(3, seasonal_max(in.trend), 25) /\ in.seasonal = 25
           \/ /\ ~number_input_fails(3, seasonal_max(in.trend), 25)
              /\ in.seasonal >= 3 /\ in.seasonal <= seasonal_max(in.trend)

StlInit ==
    /\ fn_in \in {in \in StlDirectInputs \cup StlPageInputs : StlDeliverable(in)}
    /\ fn_out = None
    /\ fn_pc = "ready"
    /\ CorrOff /\ PageOff /\ SnowOff /\ DriftOff /\ NavOff /\ ApiOff

Call_plot_stl_decomposition ==
    /\ fn_pc = "ready" /\ fn_in.fn = "plot_stl_decomposition"
    /\ \E fit \in StlFits :
           fn_out' = plot_stl_decomposition(fn_in.df, fn_in.seasonal,
                                            fn_in.trend, fit)
    /\ fn_pc' = "done"
    /\ UNCHANGED <<fn_in, corr_vars, page_vars, snow_vars, drift_vars, nav_vars,
                   api_vars>>

Render_stl_tab ==
    /\ fn_pc = "ready" /\ fn_in.fn = "stl_tab"
    /\ \E fit \in StlFits :
           fn_out' = stl_tab(fn_in.df, fn_in.trend, fn_in.seasonal, fit)
    /\ fn_pc' = "done"
    /\ UNCHANGED <<fn_in, corr_vars, page_vars, snow_vars, drift_vars, nav_vars,
                   api_vars>>

StlNext == Call_plot_stl_decomposition \/ Render_stl_tab

StlSpec == StlInit /\ [][StlNext]_vars

Decomposed ==
    /\ fn_pc = "done" /\ fn_in.fn \in {"plot_stl_decomposition", "stl_tab"}
    /\ fn_out.raised = ""
    /\ "resid" \in DOMAIN fn_out

StlObserved == plots_prepare(fn_in.df)

C24_SeasonalOddAndBelowTrend ==
    Decomposed =>
        /\ IsOdd(fn_out.seasonal_window)
        /\ fn_out.seasonal_window < fn_out.trend_window


\* ---------------------------------------------------------------------
\* LOF precipitation anomalies: anomaly_detection.py
\* detect_precipitation_anomalies.
\* ---------------------------------------------------------------------

MaxLofRows == 12
MinNeighbors == 10   \* max(10, ...)

ErrContamination == "contamination must be in (0, 0.5]"
ErrNoSamples == "Found array with 0 sample(s)"
ErrNeighbors == "Expected n_neighbors <= n_samples_fit"

dropna_precipitation(rows) ==
    SelectSeq(rows, LAMBDA row : ~IsNaN(row.precipitation))

FloorOnly(n, outlier_prop) == (n * outlier_prop[1] * 5) \div outlier_prop[2]

\* Line 94: max(10, int(len(vals) * outlier_prop * 5)), outlier_prop = a/b.
n_neighbors_of(n, outlier_prop) ==
    IF (n * outlier_prop[1] * 5) \div outlier_prop[2] > MinNeighbors
    THEN (n * outlier_prop[1] * 5) \div outlier_prop[2]
    ELSE MinNeighbors

\* LocalOutlierFactor.fit: n_neighbors_ = max(1, min(n_neighbors, n - 1)).
lof_neighbors_used(n_neighbors, n) ==
    LET clipped == IF n_neighbors < n - 1 THEN n_neighbors ELSE n - 1
    IN  IF clipped > 1 THEN clipped ELSE 1

\* LocalOutlierFactor(...).fit_predict(vals): "" when a prediction is made.
lof_rejects(n_neighbors, outlier_prop, n) ==
    IF ~(RGt(outlier_prop, <<0, 1>>) /\ RGe(<<1, 2>>, outlier_prop))
    THEN ErrContamination
    ELSE IF n = 0 THEN ErrNoSamples
    ELSE IF lof_neighbors_used(n_neighbors, n) + 1 > n THEN ErrNeighbors
    ELSE ""

\* `flagged` is the set of positions the library scores as anomalies.
detect_precipitation_anomalies(rows, outlier_prop, flagged) ==
    LET frame == sort_values_time(dropna_precipitation(rows))
        n == Len(frame)
        n_neighbors == n_neighbors_of(n, outlier_prop)
    IN  IF lof_rejects(n_neighbors, outlier_prop, n) # ""
        THEN [raised |-> "ValueError",
              message |-> lof_rejects(n_neighbors, outlier_prop, n),
              n_neighbors |-> n_neighbors]
        ELSE [raised |-> "",
              n_neighbors |-> n_neighbors,
              n_neighbors_used |-> lof_neighbors_used(n_neighbors, n),
              df_out |->
                  [i \in 1..n |->
                      [time |-> frame[i].time,
                       precipitation |-> frame[i].precipitation,
                       anomaly |-> i \in flagged]]]

LofLengths == (0..MaxLofRows) \cup {30}
LofFrames ==
    {[i \in 1..len |->
         [time |-> HourOfRow(i, swapped),
          precipitation |->
              IF missing /\ HourOfRow(i, swapped) = 3 THEN NaN
              ELSE Num(HourOfRow(i, swapped) % 3)]] :
        len \in LofLengths, missing \in BOOLEAN, swapped \in BOOLEAN}
\* 0.01 and 0.1 of the page's slider (0.001 .. 0.1); 0.5 and 0 of direct calls.
OutlierProps == {<<1, 100>>, <<1, 10>>, <<1, 2>>, <<0, 1>>}
LofInputs ==
    {[fn |-> "detect_precipitation_anomalies", df |-> f, outlier_prop |-> p] :
        f \in LofFrames, p \in OutlierProps}

LofInit ==
    /\ fn_in \in LofInputs
    /\ fn_out = None
    /\ fn_pc = "ready"
    /\ CorrOff /\ PageOff /\ SnowOff /\ DriftOff /\ NavOff /\ ApiOff

Call_detect_precipitation_anomalies ==
    /\ fn_pc = "ready" /\ fn_in.fn = "detect_precipitation_anomalies"
    /\ \E flagged \in {{}, {1}, {Len(fn_in.df)}} :
           fn_out' = detect_precipitation_anomalies(fn_in.df,
                                                    fn_in.outlier_prop, flagged)
    /\ fn_pc' = "done"
    /\ UNCHANGED <<fn_in, corr_vars, page_vars, snow_vars, drift_vars, nav_vars,
                   api_vars>>

LofNext == Call_detect_precipitation_anomalies

LofSpec == LofInit /\ [][LofNext]_vars

LofCalled ==
    /\ fn_pc = "done" /\ fn_in.fn = "detect_precipitation_anomalies"
    /\ RGt(fn_in.outlier_prop, <<0, 1>>) /\ RGe(<<1, 2>>, fn_in.outlier_prop)

NonMissing ==
    Cardinality({i \in 1..Len(fn_in.df) : ~IsNaN(fn_in.df[i].precipitation)})

RequestedNeighbors ==
    LET f == (NonMissing * fn_in.outlier_prop[1] * 5) \div fn_in.outlier_prop[2]
    IN  IF f > 10 THEN f ELSE 10

\* C25 as stated: k = max(10, floor(N * contamination * 5)) neighbours are
\* used, N the number of rows with a precipitation value, and the call fails
\* with an error whenever N < k + 1.
C25_Original ==
    LofCalled =>
        /\ fn_out.n_neighbors = RequestedNeighbors
        /\ (NonMissing < RequestedNeighbors + 1) => (fn_out.raised = "ValueError")
        /\ (fn_out.raised = "") => (fn_out.n_neighbors_used = RequestedNeighbors)

\* C25: with contamination in (0, 0.5] the function asks for
\* k = max(10, floor(N * contamination * 5)) neighbours, N the number of rows
\* with a precipitation value; for N >= 2 it returns a result of N rows, and
\* the neighbours used are min(k, N - 1).
C25_NeighborsClippedBelowN ==
    LofCalled =>
        /\ fn_out.n_neighbors = RequestedNeighbors
        /\ (NonMissing >= 2) =>
               /\ fn_out.raised = ""
               /\ Len(fn_out.df_out) = NonMissing
               /\ fn_out.n_neighbors_used =
                      (IF RequestedNeighbors < NonMissing - 1
                       THEN RequestedNeighbors ELSE NonMissing - 1)

C25_Witness ==
    /\ LofCalled /\ fn_out.raised = ""
    /\ NonMissing = 12 /\ Len(fn_in.df) = 12
    /\ fn_in.outlier_prop = <<1, 2>>
    /\ fn_out.n_neighbors = 30
    /\ fn_out.n_neighbors_used = 11


\* ---------------------------------------------------------------------
\* SARIMAX forecast: sarimax_utils.py prepare_data, fit_sarimax,
\* run_forecast and the "Run Forecast" handler of Forecast_SARIMAX.py.
\* Timestamps are hours; a date d is the day of the hours 24 d .. 24 d + 23.
\* ---------------------------------------------------------------------

MaxHorizonExtra == 1

ErrDates == "Training start must be before training end."
ErrFit == "SARIMAX: no observations"

\* A slice bound is a date string or a full timestamp string. A bound of
\* day resolution stands for its whole day: df.loc[start:end] starts at
\* the first hour of `start` and runs through the last hour of `end`.
slice_lower(bound) == IF bound.res = "day" THEN 24 * bound.v ELSE bound.v
EndAtMidnight(bound) == IF bound.res = "day" THEN 24 * bound.v ELSE bound.v
slice_upper(bound) == IF bound.res = "day" THEN 24 * bound.v + 23 ELSE bound.v

\* Line 13: df.loc[start_date:end_date] on the sorted hourly index.
loc_slice(rows, start_date, end_date) ==
    SelectSeq(rows, LAMBDA row : /\ row.time >= slice_lower(start_date)
                                 /\ row.time <= slice_upper(end_date))

select_columns(rows, cols) ==
    [i \in 1..Len(rows) |->
        [time |-> rows[i].time,
         cols |-> [k \in 1..Len(cols) |-> rows[i][cols[k]]]]]

prepare_data(rows, target_col, start_date, end_date, exog_cols) ==
    LET dff == loc_slice(rows, start_date, end_date)
    IN  [y |-> [i \in 1..Len(dff) |->
                   [time |-> dff[i].time, value |-> dff[i][target_col]]],
         X |-> IF exog_cols # None /\ exog_cols # <<>>
               THEN select_columns(dff, exog_cols) ELSE None,
         df |-> rows]

\* model.get_forecast(steps): the index of the prediction continues the
\* hourly index of y.
prediction_index(y, steps) == [k \in 1..steps |-> y[Len(y)].time + k]

\* Lines 40-53: predicted_mean and the two columns of conf_int() carry the
\* index of the prediction.
run_forecast(y, steps, X_future) ==
    [forecast_mean |-> prediction_index(y, steps),
     lower |-> prediction_index(y, steps),
     upper |-> prediction_index(y, steps)]

\* Lines 255-259: pd.date_range(start=end_date, periods=horizon + 1,
\* freq="H")[1:], end_date a date.
future_index(end_date, forecast_horizon) ==
    [k \in 1..forecast_horizon |-> 24 * end_date + k]

\* Lines 261-262: the last row of df[exog_cols], once per future hour.
X_future_of(rows, exog_cols, end_date, forecast_horizon) ==
    [k \in 1..forecast_horizon |->
        [time |-> future_index(end_date, forecast_horizon)[k],
         cols |-> [c \in 1..Len(exog_cols) |-> rows[Len(rows)][exog_cols[c]]]]]

\* Lines 238-276, the button pressed.
run_forecast_button(rows, start_date, end_date, exog_cols, forecast_horizon) ==
    LET prepared == prepare_data(rows, "quantitykwh",
                                 [res |-> "day", v |-> start_date],
                                 [res |-> "day", v |-> end_date], exog_cols)
        X_future == IF exog_cols # <<>>
                    THEN X_future_of(rows, exog_cols, end_date, forecast_horizon)
                    ELSE None
    IN  IF start_date >= end_date
        THEN [raised |-> "st.stop", message |-> ErrDates]
        ELSE IF prepared.y = <<>>
        THEN [raised |-> "ValueError", message |-> ErrFit]
        ELSE [raised |-> "",
              y |-> prepared.y,
              X |-> prepared.X,
              X_future |-> X_future,
              forecast |-> run_forecast(prepared.y, forecast_horizon, X_future)]

SarimaxRows(first, last) ==
    [i \in 1..(last - first + 1) |->
        [time |-> first + i - 1,
         quantitykwh |-> (first + i) % 5,
         temperature |-> (first + i) % 3,
         wind |-> 4]]
SarimaxFrames ==
    {SarimaxRows(0, 47), SarimaxRows(22, 50), SarimaxRows(24, 48),
     SarimaxRows(24, 24), SarimaxRows(5, 71)}
SliceBounds ==
    {[res |-> "day", v |-> d] : d \in 0..2}
        \cup {[res |-> "hour", v |-> h] : h \in {0, 23, 30, 48}}
ExogChoices == {<<>>, <<"temperature">>, <<"wind", "temperature">>}
Horizons == 24..(24 + MaxHorizonExtra)

DayOf(h) == h \div 24

PrepareInputs ==
    {[fn |-> "prepare_data", df |-> f, start_date |-> s, end_date |-> e,
      exog_cols |-> x] :
        f \in SarimaxFrames, s \in SliceBounds, e \in SliceBounds,
        x \in ExogChoices \cup {None}}
\* The two date inputs lie between the first and the last day of the data.
ForecastInputs ==
    {in \in [fn : {"run_forecast_button"}, df : SarimaxFrames,
             start_date : 0..2, end_date : 0..2, exog_cols : ExogChoices,
             forecast_horizon : Horizons] :
        /\ in.start_date >= DayOf(in.df[1].time)
        /\ in.start_date <= DayOf(in.df[Len(in.df)].time)
        /\ in.end_date >= DayOf(in.df[1].time)
        /\ in.end_date <= DayOf(in.df[Len(in.df)].time)}

SarimaxInit ==
    /\ fn_in \in PrepareInputs \cup ForecastInputs
    /\ fn_out = None
    /\ fn_pc = "ready"
    /\ CorrOff /\ PageOff /\ SnowOff /\ DriftOff /\ NavOff /\ ApiOff

Call_prepare_data ==
    /\ fn_pc = "ready" /\ fn_in.fn = "prepare_data"
    /\ fn_out' = prepare_data(fn_in.df, "quantitykwh", fn_in.start_date,
                              fn_in.end_date, fn_in.exog_cols)
    /\ fn_pc' = "done"
    /\ UNCHANGED <<fn_in, corr_vars, page_vars, snow_vars, drift_vars, nav_vars,
                   api_vars>>

Press_run_forecast ==
    /\ fn_pc = "ready" /\ fn_in.fn = "run_forecast_button"
    /\ fn_out' = run_forecast_button(fn_in.df, fn_in.start_date, fn_in.end_date,
                                     fn_in.exog_cols, fn_in.forecast_horizon)
    /\ fn_pc' = "done"
    /\ UNCHANGED <<fn_in, corr_vars, page_vars, snow_vars, drift_vars, nav_vars,
                   api_vars>>

SarimaxNext == Call_prepare_data \/ Press_run_forecast

SarimaxSpec == SarimaxInit /\ [][SarimaxNext]_vars

DataPrepared == fn_pc = "done" /\ fn_in.fn = "prepare_data"

RowsWithin(lo, hi) ==
    SelectSeq(fn_in.df, LAMBDA row : row.time >= lo /\ row.time <= hi)

TargetOf(rows) ==
    [i \in 1..Len(rows) |-> [time |-> rows[i].time, value |-> rows[i].quantitykwh]]

ExogAsked == fn_in.exog_cols # None /\ fn_in.exog_cols # <<>>

ExogOf(rows) ==
    [i \in 1..Len(rows) |->
        [time |-> rows[i].time,
         cols |-> [k \in 1..Len(fn_in.exog_cols) |-> rows[i][fn_in.exog_cols[k]]]]]

AsTimestamp(bound) == IF bound.res = "day" THEN 24 * bound.v ELSE bound.v

\* C26 as stated: y is the target of exactly the rows with
\* start <= t <= end, the two bounds read as timestamps.
C26_Original ==
    DataPrepared =>
        fn_out.y = TargetOf(RowsWithin(AsTimestamp(fn_in.start_date),
                                       AsTimestamp(fn_in.end_date)))

\* C26: prepare_data returns as y the target values, in index order, of the
\* rows from `start` through `end`, where a bound given as a date stands for
\* its whole day (rows up to 23:00 of the end date belong to the slice) and
\* a bound given as a full timestamp for itself; X holds the selected
\* exogenous columns of the same rows, or is absent when no column is
\* selected; the frame passed in is left as it was.
C26_SliceThroughEndOfEndDay ==
    DataPrepared =>
        LET hi == IF fn_in.end_date.res = "day"
                  THEN 24 * fn_in.end_date.v + 23 ELSE fn_in.end_date.v
            rows == RowsWithin(AsTimestamp(fn_in.start_date), hi)
        IN  /\ fn_out.y = TargetOf(rows)
            /\ fn_out.X = (IF ExogAsked THEN ExogOf(rows) ELSE None)
            /\ fn_out.df = fn_in.df

C26_Witness ==
    /\ DataPrepared
    /\ fn_in.start_date = [res |-> "day", v |-> 1]
    /\ fn_in.end_date = [res |-> "day", v |-> 1]
    /\ fn_in.exog_cols = <<"wind", "temperature">>
    /\ Len(fn_in.df) = 67
    /\ Len(fn_out.y) = 24
    /\ fn_out.y[24].time = 47
    /\ fn_out.X[24].cols = <<4, 0>>


Forecasted ==
    fn_pc = "done" /\ fn_in.fn = "run_forecast_button" /\ fn_out.raised = ""

LastTrainingHour == fn_out.y[Len(fn_out.y)].time

\* C27: the forecast mean, lower and upper bounds share one index of exactly
\* `steps` consecutive hourly timestamps that begins one hour after the last
\* timestamp of the training slice, and the future exogenous frame built by
\* the page has exactly `steps` rows, for those same timestamps.
C27_ForecastAndFutureExogIndex ==
    Forecasted =>
        /\ fn_out.forecast.forecast_mean =
               [k \in 1..fn_in.forecast_horizon |-> LastTrainingHour + k]
        /\ fn_out.forecast.lower = fn_out.forecast.forecast_mean
        /\ fn_out.forecast.upper = fn_out.forecast.forecast_mean
        /\ (fn_out.X_future # None) =>
               /\ Len(fn_out.X_future) = fn_in.forecast_horizon
               /\ \A k \in 1..fn_in.forecast_horizon :
                      fn_out.X_future[k].time = fn_out.forecast.forecast_mean[k]


\* ---------------------------------------------------------------------
\* compute_sector_transport and compute_Qupot on the same wind arrays,
\* missing values included.
\* ---------------------------------------------------------------------

MaxWindObs == 2

ErrNaNToInt == "cannot convert float NaN to integer"

ValuesOrZero(cells) ==
    [i \in 1..Len(cells) |-> IF IsNaN(cells[i]) THEN 0 ELSE Val(cells[i])]

\* compute_sector_transport(ws, wd) on arrays that may hold NaN: int(nan)
\* in compute_sector_index raises; a NaN speed makes its sector NaN.
sector_transport_of(ws, wd) ==
    LET n == MinLen(ws, wd)
        summed == compute_sector_transport(ValuesOrZero(ws), ValuesOrZero(wd))
    IN  IF \E i \in 1..n : IsNaN(wd[i])
        THEN [raised |-> "ValueError", message |-> ErrNaNToInt]
        ELSE [raised |-> "",
              sectors |->
                  [k \in 1..NumSectors |->
                      IF \E i \in 1..n :
                             /\ IsNaN(ws[i])
                             /\ compute_sector_index(Val(wd[i])) = k - 1
                      THEN NaN ELSE summed[k]]]

\* compute_Qupot(ws) on an array that may hold NaN: np.sum is NaN then.
Qupot_of(ws) ==
    IF \E i \in 1..Len(ws) : IsNaN(ws[i]) THEN NaN
    ELSE compute_Qupot(ValuesOrZero(ws))

\* Speeds 0, 1, 32 m/s; directions 0, 11.25, 348.75, 360 and -90 degrees in
\* quarter degrees; NaN for a missing observation.
SpeedCells == {Num(0), Num(1), Num(32), NaN}
DirectionCells == {Num(0), Num(45), Num(1395), Num(1440), Num(-360), NaN}
WindArrays ==
    UNION {{[fn |-> "compute_sector_transport", ws |-> ws, wd |-> wd] :
               ws \in [1..n -> SpeedCells], wd \in [1..n -> DirectionCells]} :
           n \in 0..MaxWindObs}

SectorSumInit ==
    /\ fn_in \in WindArrays
    /\ fn_out = None
    /\ fn_pc = "ready"
    /\ CorrOff /\ PageOff /\ SnowOff /\ DriftOff /\ NavOff /\ ApiOff

Call_compute_sector_transport ==
    /\ fn_pc = "ready" /\ fn_in.fn = "compute_sector_transport"
    /\ fn_out' = [transport |-> sector_transport_of(fn_in.ws, fn_in.wd),
                  Qupot |-> Qupot_of(fn_in.ws)]
    /\ fn_pc' = "done"
    /\ UNCHANGED <<fn_in, corr_vars, page_vars, snow_vars, drift_vars, nav_vars,
                   api_vars>>

SectorSumNext == Call_compute_sector_transport

SectorSumSpec == SectorSumInit /\ [][SectorSumNext]_vars

SectorsComputed == fn_pc = "done" /\ fn_in.fn = "compute_sector_transport"

NoMissingWind ==
    \A i \in 1..Len(fn_in.ws) : ~IsNaN(fn_in.ws[i]) /\ ~IsNaN(fn_in.wd[i])

\* The power of the observations whose direction lies in sector k.
PowerTowards(k) ==
    SumSeq([i \in 1..Len(fn_in.ws) |->
               IF ((Val(fn_in.wd[i]) + 45) % 1440) \div 90 = k
               THEN Pow38(Val(fn_in.ws[i])) ELSE 0])

\* C28 as stated: for any two arrays of equal length the 16 entries are
\* returned, they sum to compute_Qupot(ws) and none is negative.
C28_Original ==
    SectorsComputed =>
        /\ fn_out.transport.raised = ""
        /\ \A k \in 1..NumSectors : ~IsNaN(fn_out.transport.sectors[k])
        /\ RSum(fn_out.transport.sectors) = fn_out.Qupot
        /\ \A k \in 1..NumSectors : RGe(fn_out.transport.sectors[k], <<0, 1>>)

\* C28: for wind-speed and wind-direction arrays of equal length without
\* missing values, every observation contributes to exactly one of the 16
\* sectors: entry k is the transport of the observations whose direction
\* falls in sector k, the 16 entries sum to compute_Qupot(ws), and for
\* non-negative speeds no entry is negative.
C28_SectorsSumToQupot ==
    (SectorsComputed /\ NoMissingWind) =>
        /\ fn_out.transport.raised = ""
        /\ Len(fn_out.transport.sectors) = 16
        /\ \A k \in 0..15 :
               At(fn_out.transport.sectors, k) =
                   RMul(<<PowerTowards(k), 1>>, Rat(3600, 233847))
        /\ RSum(fn_out.transport.sectors) = fn_out.Qupot
        /\ \A k \in 0..15 : RGe(At(fn_out.transport.sectors, k), <<0, 1>>)

C28_Witness ==
    /\ SectorsComputed /\ NoMissingWind
    /\ fn_in.ws = <<Num(32), Num(1)>>
    /\ fn_in.wd = <<Num(1395), Num(-360)>>
    /\ RGt(At(fn_out.transport.sectors, 0), <<0, 1>>)
    /\ RGt(At(fn_out.transport.sectors, 12), <<0, 1>>)
    /\ RGt(fn_out.Qupot, At(fn_out.transport.sectors, 0))


\* ---------------------------------------------------------------------
\* Sidebar navigation: src/ui/navigation.py render_option_menu_navigation.
\* One action is one run of the function in one session. st.switch_page
\* ends the run at once: the statements after the call are not executed.
\* ---------------------------------------------------------------------

MaxRenders == 4

PAGE_MAP ==
    ("Energy" :>
        (("Production & Consumption" :> "pages/energy/production.py")
         @@ ("Production STL & Spectrogram" :> "pages/energy/stl.py")
         @@ ("Sliding Window Correlation" :> "pages/energy/correlation.py")))
    @@ ("Weather" :>
        (("Weather Overview" :> "pages/weather/overview.py")
         @@ ("Meteo Analyses" :> "pages/weather/meteo.py")
         @@ ("Snow Drift" :> "pages/weather/snowdrift.py")))
    @@ ("Forecasting" :>
        ("Forecast SARIMAX" :> "pages/forecasting/sarimax.py"))
    @@ ("Data Selection" :>
        ("Map & Selectors" :> "pages/data/map_selectors.py"))

\* The insertion order of current_selections.
Categories == <<"Energy", "Weather", "Forecasting", "Data Selection">>

\* What the four option menus can return together.
Selections ==
    {s \in [DOMAIN PAGE_MAP ->
               UNION {DOMAIN PAGE_MAP[c] : c \in DOMAIN PAGE_MAP}] :
        \A c \in DOMAIN PAGE_MAP : s[c] \in DOMAIN PAGE_MAP[c]}

\* Lines 125-129: a key that is absent is given its first value.
setdefault(state, key, value) ==
    IF key \in DOMAIN state THEN state ELSE state @@ (key :> value)

initialized_state(state) ==
    setdefault(setdefault(state, "nav_initialized", FALSE),
               "last_selections", [c \in {} |-> ""])

\* Lines 187-195: the categories whose stored selection exists and differs
\* from the current one; the loop acts on the first of them.
changed_categories(last_selections, current_selections) ==
    {i \in 1..Len(Categories) :
        /\ Categories[i] \in DOMAIN last_selections
        /\ last_selections[Categories[i]] # current_selections[Categories[i]]}

\* Lines 124-201: the targets handed to st.switch_page and the session
\* state the run leaves behind.
render_option_menu_navigation(state, dashboard_btn, current_selections) ==
    LET ss == initialized_state(state)
        changed == changed_categories(ss["last_selections"], current_selections)
        category == Categories[MinOf(changed)]
    IN  IF dashboard_btn /\ "_dashboard_page" \in DOMAIN ss
        THEN [switch_page |-> <<ss["_dashboard_page"]>>, session_state |-> ss]
        ELSE IF ss["nav_initialized"] /\ changed # {}
        THEN [switch_page |-> <<PAGE_MAP[category][current_selections[category]]>>,
              session_state |-> ss]
        ELSE [switch_page |-> <<>>,
              session_state |->
                  [ss EXCEPT !["last_selections"] = current_selections,
                             !["nav_initialized"] = TRUE]]

\* create_navigation (lines 73-74) may or may not have run before.
NavInit ==
    /\ session_state \in {<<>>, "_dashboard_page" :> "Dashboard"}
    /\ menus = None /\ menus_before = None
    /\ switched = <<>>
    /\ renders = 0
    /\ CorrOff /\ PageOff /\ SnowOff /\ DriftOff /\ FnOff /\ ApiOff

\* One run of the script. The button reads True only in the run its click
\* starts, in which the menus hold what they held.
Render ==
    /\ renders >= 0 /\ renders < MaxRenders
    /\ \E current_selections \in Selections, dashboard_btn \in BOOLEAN :
           /\ dashboard_btn => (renders > 0 /\ current_selections = menus)
           /\ LET run == render_option_menu_navigation(session_state,
                             dashboard_btn, current_selections)
              IN  /\ session_state' = run.session_state
                  /\ switched' = run.switch_page
           /\ menus' = current_selections
    /\ menus_before' = menus
    /\ renders' = renders + 1
    /\ UNCHANGED <<corr_vars, page_vars, snow_vars, drift_vars, fn_vars, api_vars>>

NavNext == Render

NavSpec == NavInit /\ [][NavNext]_vars

\* C29: over any sequence of renders of one session, a render calls
\* switch_page only if some menu's selection differs from that menu's
\* selection in the render just before it: the first render never
\* navigates, a render with unchanged selections that follows a navigation
\* does not navigate again, and a render navigates at most once.
C29_NavigatesOnlyOnChangedSelection ==
    /\ Len(switched) <= 1
    /\ (switched # <<>>) =>
           /\ renders >= 2
           /\ \E c \in DOMAIN PAGE_MAP : menus[c] # menus_before[c]


\* ---------------------------------------------------------------------
\* Elhub client: src/api/elhub_api.py fetch_elhub_data and
\* _parse_elhub_response. One action is one pass of the inner loop: a
\* request, its answer and what the code does with it.
\* ---------------------------------------------------------------------

MaxRetries == 2

PRICE_AREAS == <<"NO1", "NO2", "NO3", "NO4", "NO5">>

\* The entries of the items of a list, in order.
RECURSIVE entries_of(_)
entries_of(items) ==
    IF items = <<>> THEN <<>> ELSE Head(items) \o entries_of(Tail(items))

tagged(entries, price_area) ==
    [k \in 1..Len(entries) |->
        [quantityKwh |-> entries[k].quantityKwh, priceArea |-> price_area]]

\* Lines 85-105: the entries under "data", then those under "included",
\* each given the area of the request.
parse_elhub_response(data, price_area) ==
    tagged(entries_of(data.data), price_area)
        \o tagged(entries_of(data.included), price_area)

\* What one requests.get can bring: a status 200 whose body is parsed, a
\* status 200 whose body is not JSON of the expected shape (resp.json() or
\* the parsing raises), 204, 429, 500 or 503, any other status, or an
\* exception of the request itself.
Bodies ==
    {[data |-> <<<<[quantityKwh |-> 1]>>, <<[quantityKwh |-> 2]>>>>,
      included |-> <<<<[quantityKwh |-> 3]>>>>]}
Answers ==
    {[kind |-> "200", body |-> b] : b \in Bodies}
        \cup {[kind |-> k, body |-> <<>>] :
                 k \in {"200_undecodable", "204", "429", "500", "503", "404",
                        "exception"}}

EveryAnswerRetried(kind) == FALSE

\* Lines 52-80: the answers that end the loop of the area (break); the
\* others go on to the next attempt (continue, or the except clause).
ends_area(kind) == kind \in {"200", "204", "404"}

ElhubInit ==
    /\ max_retries \in 0..MaxRetries
    /\ area = 1 /\ attempt = 0
    /\ all_records = <<>>
    /\ requests_sent = [a \in 1..Len(PRICE_AREAS) |-> 0]
    /\ answered_200 = {}
    /\ last_answer = ""
    /\ retried_after = {}
    /\ api_pc = "loop"
    /\ CorrOff /\ PageOff /\ SnowOff /\ DriftOff /\ FnOff /\ NavOff

\* Lines 46-80, one attempt.
Request ==
    /\ api_pc = "loop" /\ area <= Len(PRICE_AREAS) /\ attempt < max_retries
    /\ \E answer \in Answers :
           /\ requests_sent' = [requests_sent EXCEPT ![area] = @ + 1]
           /\ retried_after' =
                  IF last_answer \in {"200_undecodable", "200", "204", "404"}
                  THEN retried_after \cup {last_answer} ELSE retried_after
           /\ answered_200' =
                  IF answer.kind \in {"200", "200_undecodable"}
                  THEN answered_200 \cup {PRICE_AREAS[area]} ELSE answered_200
           /\ all_records' =
                  IF answer.kind = "200"
                  THEN all_records
                           \o parse_elhub_response(answer.body, PRICE_AREAS[area])
                  ELSE all_records
           /\ IF ends_area(answer.kind)
              THEN area' = area + 1 /\ attempt' = 0 /\ last_answer' = ""
              ELSE /\ area' = area /\ attempt' = attempt + 1
                   /\ last_answer' = answer.kind
    /\ UNCHANGED <<max_retries, api_pc, corr_vars, page_vars, snow_vars,
                   drift_vars, fn_vars, nav_vars>>

\* Line 46: range(max_retries) is used up.
RetriesExhausted ==
    /\ api_pc = "loop" /\ area <= Len(PRICE_AREAS) /\ attempt >= max_retries
    /\ area' = area + 1 /\ attempt' = 0 /\ last_answer' = ""
    /\ UNCHANGED <<max_retries, all_records, requests_sent, answered_200,
                   retried_after, api_pc, corr_vars, page_vars, snow_vars,
                   drift_vars, fn_vars, nav_vars>>

\* Line 82: return pd.DataFrame(all_records)
ReturnFrame ==
    /\ api_pc = "loop" /\ area > Len(PRICE_AREAS)
    /\ api_pc' = "returned"
    /\ UNCHANGED <<max_retries, area, attempt, all_records, requests_sent,
                   answered_200, last_answer, retried_after, corr_vars,
                   page_vars, snow_vars, drift_vars, fn_vars, nav_vars>>

ElhubNext == Request \/ RetriesExhausted \/ ReturnFrame

ElhubSpec == ElhubInit /\ [][ElhubNext]_vars

\* The function runs on: no step of it waits for ever (requests.get has a
\* timeout, every sleep is finite).
ElhubLiveSpec == ElhubSpec /\ WF_vars(ElhubNext)

AreasInFrame == {all_records[k].priceArea : k \in 1..Len(all_records)}

AreasInOrder ==
    \A j, k \in 1..Len(all_records) :
        j < k =>
            \E a, b \in 1..Len(PRICE_AREAS) :
                /\ a <= b
                /\ all_records[j].priceArea = PRICE_AREAS[a]
                /\ all_records[k].priceArea = PRICE_AREAS[b]

\* The records the parsed body of one area brings, and those of the areas
\* of the frame together.
RECURSIVE RecordsOfAreas(_)
RecordsOfAreas(a) ==
    IF a > Len(PRICE_AREAS) THEN <<>>
    ELSE (IF PRICE_AREAS[a] \in AreasInFrame
          THEN [k \in 1..3 |-> [quantityKwh |-> k, priceArea |-> PRICE_AREAS[a]]]
          ELSE <<>>) \o RecordsOfAreas(a + 1)

WithinRetries == \A a \in 1..Len(PRICE_AREAS) : requests_sent[a] <= max_retries

=============================================================================
